---- MODULE Spec2Model ----
(***************************************************************************)
(* Model of the agent orchestration loop of agent_framework:               *)
(*   Agent.chat / Agent._run_agent_loop        (agent.py)                  *)
(*   SubAgent.execute / SubAgentManager        (sub_agent.py)              *)
(*   ToolRegistry.execute                      (tools.py)                  *)
(*   BaseModelClient.chat                      (model_client.py)           *)
(*                                                                         *)
(* Texts (message contents, tool outputs, tool names) are sequences of     *)
(* string tokens, so that concatenation, startswith and replace are        *)
(* computed and not assumed.  A missing dictionary key and Python's None   *)
(* are both the empty sequence (None).                                     *)
(***************************************************************************)
EXTENDS Integers, Sequences, FiniteSets, TLC

\* ---------------------------------------------------------------- bounds
\* AgentConfig.max_iterations (100 by default) of the model's agent
MaxIterationsBound == 2
\* ModelConfig.max_messages is 1 or MaxMessagesBound
MaxMessagesBound == 2
\* a model response carries at most MaxBatch tool calls
MaxBatch == 2
\* SubAgentConfig.max_iterations (50 by default) of the sub-agents of the model
SubIterationsBound == 2

\* an argument value of a direct _resolve_placeholders call has at most MaxValueLen tokens
MaxValueLen == 2
\* the result history of a direct _resolve_placeholders call has at most MaxHistory entries
MaxHistory == 2

\* the clock time.time() of the rate limiter's model stops at MaxTime ticks
MaxTime == 7
\* an EventEmitter of the model has at most MaxHandlers handlers
MaxHandlers == 3
\* the loop of the EventEmitter's model emits at most MaxEmits events
MaxEmits == 2

\* a tool output searched by description has at most MaxLines lines
MaxLines == 6

\* a chat() of the message-history model runs at most MaxTurns iterations
MaxTurns == 3

\* a thread of the lock model makes at most MaxCalls calls on the emitter, and
\* the emitter gets at most MaxLockHandlers handlers
MaxCalls == 2
MaxLockHandlers == 2

\* a session on the shared emitter runs at most MaxSessionTurns iterations
MaxSessionTurns == 2

\* ------------------------------------------------------ program constants
\* seconds of whole-session budget per iteration (agent.py:229, agent.py:243)
PerIterationBudget == 10
\* window of SubAgent's pruning (sub_agent.py:132)
SubMaxMessages == 50
\* SubAgentConfig.timeout, in seconds (sub_agent.py:23, sub_agent.py:259)
SubTimeout == 300
\* _find_tool_result_by_description returns at most the first MaxPaths paths (base.py:182)
MaxPaths == 5
\* the default of ModelConfig.max_messages (config.py:25)
DefaultMaxMessages == 50
\* ModelConfig.rate_limit_delay (config.py:26) and the delay of a sub-agent
\* (sub_agent.py:126), 0.5 s, in clock ticks of a quarter second
RateLimitDelay == 2
\* EventEmitter's max_queue_size (events.py:100)
MaxQueueSize == 1000

None == <<>>

\* ------------------------------------------------------------------ text
PREFIX == "subagent_"

\* str.startswith("subagent_") on a tokenised name
StartsWithPrefix(name) == Len(name) > 0 /\ Head(name) = PREFIX

\* str.replace("subagent_", ""): removes EVERY occurrence, not only the prefix
ReplacePrefix(name) == SelectSeq(name, LAMBDA t : t # PREFIX)

\* output.startswith("Error:")
StartsWithError(text) == Len(text) > 0 /\ Head(text) = "Error:"

RECURSIVE Flatten(_)
\* content += chunk, for every chunk of a stream
Flatten(chunks) == IF chunks = <<>> THEN <<>> ELSE Head(chunks) \o Flatten(Tail(chunks))

\* ---------------------------------------------------------- placeholders
\* the texts `\$\{tool_result\.(\d+)\}` matches, by the index they name
IndexTokens == <<"${tool_result.0}", "${tool_result.1}", "${tool_result.2}">>
LastToken == "${tool_result.last}"
\* the texts `\$\{memory\.([^}]+)\}` matches, and group(1) of each
MemoryTokens == {"${memory.k1}", "${memory.k2}"}
MemoryKey(t) == IF t = "${memory.k1}" THEN "k1" ELSE "k2"
\* the texts `\$\{natural\.([^}]+)\}` matches, and the words of group(1)
NaturalTokens == {"${natural.grep result}", "${natural.build log}"}
NaturalQuery(t) == IF t = "${natural.grep result}" THEN {"grep", "result"} ELSE {"build", "log"}

IsIndexToken(t) == \E n \in 1..Len(IndexTokens) : IndexTokens[n] = t
\* int(tool_match.group(1))
IndexOf(t) == (CHOOSE n \in 1..Len(IndexTokens) : IndexTokens[n] = t) - 1

\* re.search: the position in value of the first match (a text of the set
\* `matches`), 0 when there is none
FirstMatch(value, matches) ==
  IF \E i \in 1..Len(value) : value[i] \in matches
  THEN CHOOSE i \in 1..Len(value) :
         value[i] \in matches /\ \A j \in 1..(i - 1) : value[j] \notin matches
  ELSE 0

RECURSIVE Replace(_, _, _)
\* value.replace(old, new): every occurrence of old, left to right, in one pass
\* (the inserted text is not scanned again)
Replace(value, old, new) ==
  IF value = <<>> THEN <<>>
  ELSE (IF Head(value) = old THEN new ELSE <<Head(value)>>) \o Replace(Tail(value), old, new)

\* BaseAgent._find_tool_result_by_description for outputs of one line: the
\* output of the latest result whose tool name occurs in the description
find_tool_result_by_description(query, tool_results_history) ==
  LET hits == { i \in 1..Len(tool_results_history) : tool_results_history[i].tool_name \in query }
  IN IF hits = {} THEN [found |-> FALSE, output |-> <<>>]
     ELSE [found |-> TRUE,
           output |-> tool_results_history[CHOOSE i \in hits : \A j \in hits : j <= i].output]

\* step 1 without the range check: an index beyond the history resolves to ""
ResolveIndexUnchecked(value, tool_results_history) ==
  LET m == FirstMatch(value, { IndexTokens[n] : n \in 1..Len(IndexTokens) })
  IN IF m = 0 THEN value
     ELSE IF IndexOf(value[m]) < Len(tool_results_history)
     THEN Replace(value, value[m], tool_results_history[IndexOf(value[m]) + 1].output)
     ELSE Replace(value, value[m], <<>>)

\* base.py:197-202, step 1: the first ${tool_result.N} of the value, and only it
ResolveIndex(value, tool_results_history) ==
  LET m == FirstMatch(value, { IndexTokens[n] : n \in 1..Len(IndexTokens) })
  IN IF m # 0 /\ IndexOf(value[m]) < Len(tool_results_history)
     THEN Replace(value, value[m], tool_results_history[IndexOf(value[m]) + 1].output)
     ELSE value

\* base.py:204-206, step 2
ResolveLast(value, tool_results_history) ==
  IF (\E i \in 1..Len(value) : value[i] = LastToken) /\ tool_results_history # <<>>
  THEN Replace(value, LastToken, tool_results_history[Len(tool_results_history)].output)
  ELSE value

\* base.py:208-215, step 3: the first ${memory.KEY} of the value, when a store is given
ResolveMemory(value, memory_store) ==
  LET m == FirstMatch(value, MemoryTokens)
  IN IF memory_store.given /\ m # 0 /\ MemoryKey(value[m]) \in memory_store.keys
     THEN Replace(value, value[m], memory_store.data[MemoryKey(value[m])])
     ELSE value

\* base.py:217-223, step 4: the first ${natural.QUERY} of the value
ResolveNatural(value, tool_results_history) ==
  LET m == FirstMatch(value, NaturalTokens)
      r == find_tool_result_by_description(NaturalQuery(value[m]), tool_results_history)
  IN IF m # 0 /\ r.found THEN Replace(value, value[m], r.output) ELSE value

\* BaseAgent._resolve_placeholders for one string value: the four steps in order
resolve_value(value, tool_results_history, memory_store) ==
  ResolveNatural(
    ResolveMemory(
      ResolveLast(ResolveIndex(value, tool_results_history), tool_results_history),
      memory_store),
    tool_results_history)

\* BaseAgent._resolve_placeholders
resolve_placeholders(args, tool_results_history, memory_store) ==
  [k \in DOMAIN args |-> resolve_value(args[k], tool_results_history, memory_store)]

\* memory_store=None (the default of _resolve_placeholders)
NoStore == [given |-> FALSE, keys |-> {}, data |-> [k1 |-> <<>>, k2 |-> <<>>]]

\* no _resolve_placeholders call is being made
NoResolver ==
  [pc |-> "none", args |-> [pattern |-> <<>>], tool_results |-> <<>>,
   memory_store |-> NoStore, resolved |-> [pattern |-> <<>>]]

\* the tokens an argument value is made of
ValueTokens ==
  {"foo", LastToken} \cup { IndexTokens[n] : n \in 1..Len(IndexTokens) }
  \cup MemoryTokens \cup NaturalTokens

\* argument values: 1 to MaxValueLen tokens
ArgValues == UNION { [1..n -> ValueTokens] : n \in 1..MaxValueLen }

\* entries of BaseAgent._tool_results: an output may itself hold placeholder text
HistoryEntries ==
  { [tool_name |-> "grep", output |-> <<"A">>],
    [tool_name |-> "read", output |-> <<"B", LastToken>>],
    [tool_name |-> "read", output |-> <<>>] }

Histories == UNION { [1..n -> HistoryEntries] : n \in 0..MaxHistory }

\* the memory_store argument: None, or a MemoryStore with its _data
MemoryStores ==
  { NoStore,
    [given |-> TRUE, keys |-> {}, data |-> [k1 |-> <<>>, k2 |-> <<>>]],
    [given |-> TRUE, keys |-> {"k1"}, data |-> [k1 |-> <<"M">>, k2 |-> <<>>]],
    [given |-> TRUE, keys |-> {"k1", "k2"}, data |-> [k1 |-> <<"M">>, k2 |-> <<>>]] }

\* ------------------------------------------------------------- messages
Msg(role, content, tool_calls, tool_call_id) ==
  [role |-> role, content |-> content, tool_calls |-> tool_calls, tool_call_id |-> tool_call_id]

SystemMsg == Msg("system", <<"prompt">>, <<>>, None)
UserMsg(text) == Msg("user", text, <<>>, None)
AssistantMsg(content, tool_calls) == Msg("assistant", content, tool_calls, None)
ToolMsg(content, id) == Msg("tool", content, <<>>, id)

\* seq[-1]
Last(seq) == seq[Len(seq)]

\* Python's messages[-n:] (for n = 0 this is messages[0:], the whole list)
LastN(messages, n) ==
  IF n = 0 \/ n >= Len(messages) THEN messages
  ELSE SubSeq(messages, Len(messages) - n + 1, Len(messages))

\* Agent._prune_messages and BaseAgent._prune_messages: system message (if it is
\* the first one) followed by the last max_msgs messages
prune_messages(messages, max_msgs) ==
  IF Len(messages) <= max_msgs THEN messages
  ELSE IF messages[1].role = "system"
       THEN <<messages[1]>> \o LastN(messages, max_msgs)
       ELSE LastN(messages, max_msgs)

\* ----------------------------------------------------------- tool calls
ValidJsonTexts ==
  {"{\"pattern\":\"foo\"}", "{\"pattern\":\"${tool_result.0}\"}", "{\"task\":\"t\"}"}
MalformedJsonTexts == {"{bad"}

\* json.loads(args_str) succeeds (the empty text is never parsed: `if args_str else {}`)
JsonLoads(args_str) == args_str = "" \/ args_str \in ValidJsonTexts

\* the items of `json.loads(args_str) if args_str else {}`, each a key and a
\* tokenised string value
json_loads(args_str) ==
  IF args_str = "{\"pattern\":\"foo\"}" THEN <<[key |-> "pattern", value |-> <<"foo">>]>>
  ELSE IF args_str = "{\"pattern\":\"${tool_result.0}\"}"
       THEN <<[key |-> "pattern", value |-> <<IndexTokens[1]>>]>>
  ELSE IF args_str = "{\"task\":\"t\"}" THEN <<[key |-> "task", value |-> <<"t">>]>>
  ELSE <<>>

\* agent.py:279-282 and BaseAgent._parse_tool_args: malformed JSON is wrapped
parse_tool_args(args_str) ==
  IF JsonLoads(args_str) THEN json_loads(args_str)
  ELSE <<[key |-> "raw", value |-> <<args_str>>]>>

\* the calls a model may issue, before ids are assigned
CallShapes ==
  { [name |-> <<"grep">>, arguments |-> "{\"pattern\":\"foo\"}"],
    [name |-> <<"grep">>, arguments |-> "{bad"],
    [name |-> <<"finish">>, arguments |-> ""],
    [name |-> <<"slow">>, arguments |-> ""],
    [name |-> <<PREFIX, "coder">>, arguments |-> "{\"task\":\"t\"}"],
    [name |-> <<PREFIX, PREFIX, "coder">>, arguments |-> "{\"task\":\"t\"}"] }

ToolCall(id, shape) == [id |-> id, name |-> shape.name, arguments |-> shape.arguments]

\* the shapes of the batches a model may issue: every single call, and pairs
\* (and, from MaxBatch = 3 on, longer runs of one call)
Shape(name, arguments) == [name |-> name, arguments |-> arguments]
GrepCall == Shape(<<"grep">>, "{\"pattern\":\"foo\"}")
\* a grep whose pattern refers to the first result of the session
GrepRefCall == Shape(<<"grep">>, "{\"pattern\":\"${tool_result.0}\"}")
\* a delegation to a sub-agent that is never registered
GhostCall == Shape(<<PREFIX, "ghost">>, "{\"task\":\"t\"}")
\* a call of a tool that is not registered, and a call of tool "abort"
NopeCall == Shape(<<"nope">>, "")
AbortCall == Shape(<<"abort">>, "")
BatchShapes ==
  { <<s>> : s \in CallShapes }
  \cup (IF MaxBatch >= 2
        THEN { <<Shape(<<"finish">>, ""), GrepCall>>, <<GrepCall, GrepRefCall>>,
               <<GrepCall, GhostCall>>, <<NopeCall, AbortCall>> }
        ELSE {})
  \cup { [i \in 1..k |-> GrepCall] : k \in 3..MaxBatch }

\* the batches of request number n of a run: ids are unique per request and position
Batches(n) ==
  { [i \in 1..Len(b) |-> ToolCall(<<n, i>>, b[i])] : b \in BatchShapes }

\* --------------------------------------------------------- model client
StopReasons == {"stop", "length", "error"}

\* BaseModelClient.chat(stream=False): raises after the retries, or returns a
\* ModelResponse whose tool calls are ToolCall objects
NonStreamResponses(n) ==
  { [raises |-> TRUE, content |-> <<>>, chunks |-> <<>>, stop_reason |-> "error", tool_calls |-> <<>>] }
  \cup
  { [raises |-> FALSE, content |-> <<"hello">>, chunks |-> <<>>, stop_reason |-> s, tool_calls |-> <<>>] :
      s \in StopReasons }
  \cup
  { [raises |-> FALSE, content |-> <<>>, chunks |-> <<>>, stop_reason |-> "tool_use", tool_calls |-> b] :
      b \in Batches(n) }

\* BaseModelClient.chat(stream=True): an AsyncStreamResponse; iterating it yields
\* the chunks and may raise; its tool calls are raw mappings and it has no stop reason
StreamResponses(n) ==
  { [raises |-> TRUE, content |-> <<>>, chunks |-> <<>>, stop_reason |-> "none", tool_calls |-> <<>>] }
  \cup
  { [raises |-> FALSE, content |-> <<>>, chunks |-> ch, stop_reason |-> "none", tool_calls |-> <<>>] :
      ch \in { <<>>, << <<"hel">>, <<"lo">> >> } }
  \cup
  { [raises |-> FALSE, content |-> <<>>, chunks |-> <<>>, stop_reason |-> "none", tool_calls |-> b] :
      b \in Batches(n) }

Responses(stream, n) == IF stream THEN StreamResponses(n) ELSE NonStreamResponses(n)

\* no response has been received yet
NoResponse == [raises |-> FALSE, content |-> <<>>, chunks |-> <<>>, stop_reason |-> "none", tool_calls |-> <<>>]

\* agent.py:171-183, sub_agent.py:136-143: the content of a response is the
\* concatenation of the chunks of a stream, or the content of a ModelResponse
CollectContent(resp, stream) == IF stream THEN Flatten(resp.chunks) ELSE resp.content

\* the loop condition with an off-by-one: one iteration too many
LoopGuardOffByOne(its, max_iterations) == its <= max_iterations

\* agent.py:153, `while iterations < max_iterations`
LoopGuard(its, max_iterations) == its < max_iterations

\* the stop check without the branch for streams (agent.py:238-241 left out)
StopsWithSuccessNoStream(resp, stream) == ~stream /\ resp.stop_reason = "stop"

\* agent.py:235-241, for a response without tool calls: success on stop_reason
\* STOP (not streaming), or on any exhausted stream
StopsWithSuccess(resp, stream) == (~stream /\ resp.stop_reason = "stop") \/ stream

\* str(e) of the exception BaseModelClient raises
ModelErrorText == <<"Request failed after 3 attempts">>
\* str(e) of the AttributeError raised when a ToolCall object is used as a mapping
AttributeErrorText == <<"'ToolCall' object has no attribute 'get'">>

\* str(e) of the AttributeError raised when a raw mapping is used as a ToolCall object
DictAttributeErrorText == <<"'dict' object has no attribute 'function'">>

\* ------------------------------------------------------------ dispatcher
\* names in ToolRegistry._tools
RegisteredTools == { <<"grep">>, <<"finish">>, <<"slow">>, <<"abort">> }

\* what tool.execute(**kwargs) does: tool "grep" returns a text, tool "finish"
\* raises an exception with a message (the final-answer signal), tool "slow" does
\* not complete before the timeout: it completes later ("late") or never, tool
\* "abort" raises an exception that is not an Exception (SystemExit)
ToolOutcomes(name) ==
  IF name = <<"grep">>
  THEN { [kind |-> "return", text |-> <<"match.py:1:foo">>] }
  ELSE IF name = <<"finish">>
  THEN { [kind |-> "raise", text |-> <<"DONE">>] }
  ELSE IF name = <<"slow">>
  THEN { [kind |-> "late", text |-> <<>>], [kind |-> "never", text |-> <<>>] }
  ELSE IF name = <<"abort">>
  THEN { [kind |-> "exit", text |-> <<"SystemExit">>] }
  ELSE { [kind |-> "unknown", text |-> <<>>] }

\* truncate_tool_result on a text below the limits: returned unchanged
truncate_short(text) == text

\* tools.py:486-487: leaving `with ThreadPoolExecutor(...)` joins the worker
\* thread (shutdown(wait=True)), also when result(timeout=...) has raised
\* TimeoutError: execute returns only once the tool has completed
ExecutorReturns(outcome) == outcome.kind # "never"

\* `except Exception` (tools.py:495, agent.py:331, sub_agent.py:193 and :170):
\* what the worker thread raised is raised again by result(), and caught only
\* if it is an Exception
ExceptException(outcome) == outcome.kind # "exit"

\* ToolRegistry.execute that hands on the message of a failure without "Error:"
RegistryExecuteUnprefixed(name, outcome) ==
  IF name \notin RegisteredTools THEN <<" Unknown tool: ">> \o name
  ELSE IF outcome.kind = "return" THEN truncate_short(outcome.text)
  ELSE IF outcome.kind = "late" THEN <<"Error:", " Tool timed out after ", "30s">>
  ELSE outcome.text

\* ToolRegistry.execute, when it returns: never raises, every failure becomes an
\* "Error:" text; the timeout text is returned after the late tool has completed
RegistryExecute(name, outcome) ==
  IF name \notin RegisteredTools THEN <<"Error:", " Unknown tool: ">> \o name
  ELSE IF outcome.kind = "return" THEN truncate_short(outcome.text)
  ELSE IF outcome.kind = "late" THEN <<"Error:", " Tool timed out after ", "30s">>
  ELSE <<"Error:", " Tool execution failed: ">> \o outcome.text

\* execute_tool(name, **kwargs)
execute_tool(name, outcome) == RegistryExecute(name, outcome)

\* one entry of the list _execute_tools / _execute_subagent_tools returns
ToolResult(tc, output) ==
  [tool_use_id |-> tc.id, tool_name |-> tc.name, output |-> output,
   success |-> ~StartsWithError(output)]

\* Agent._is_subagent_call
is_subagent_call(tc) == StartsWithPrefix(tc.name)
is_tool_only_call(tc) == ~is_subagent_call(tc)

\* ------------------------------------------------------------ sub-agents
\* SubAgentConfig values that may be registered
ConfigChoices ==
  { [name |-> <<"coder">>, max_iterations |-> SubIterationsBound, timeout |-> SubTimeout] }

\* SubAgentManager.create_subagent(name="default", ...); its max_iterations (50 in
\* the source) is scaled to the bound of the model
DefaultConfig == [name |-> <<"default">>, max_iterations |-> SubIterationsBound, timeout |-> SubTimeout]

\* names a public caller may pass to run_subagent / execute_task_async
DelegateNames == { <<"coder">>, <<"ghost">> }

\* result dict of SubAgent.execute at line 123
SubResult0 == [success |-> FALSE, summary |-> <<>>, tool_calls |-> 0, error |-> None]

NoSub ==
  [pc |-> "none", caller |-> "none", agent_name |-> None, tool_use_id |-> None, subagent_name |-> <<>>,
   max_iterations |-> 0, timeout |-> 0, stream |-> FALSE, messages |-> <<>>,
   iterations |-> 0, result |-> SubResult0, stats_tool_calls |-> 0,
   pending |-> <<>>, results |-> <<>>, assistant |-> <<>>, elapsed |-> 0,
   requests |-> 0, modelFailed |-> FALSE, sent |-> <<>>, tool_results |-> <<>>]

\* SubAgent(config, ...).execute(task, context, stream): lines 111-123
StartSub(cfg, caller, id, agent_name, s) ==
  [NoSub EXCEPT !.pc = "loop", !.caller = caller, !.tool_use_id = id,
                !.agent_name = agent_name,
                !.subagent_name = cfg.name,
                !.max_iterations = cfg.max_iterations, !.timeout = cfg.timeout,
                !.stream = s,
                !.messages = <<SystemMsg, UserMsg(<<"t">>)>>]

\* ------------------------------------------------- truncate_tool_result
\* texts are sequences of characters here, a character being its code point
MaxTextLen == 40

\* the text of n characters that are pairwise distinct and do not occur in a marker
Text(n) == [i \in 1..n |-> 1000 + i]

\* str(n) for n >= 0
RECURSIVE Digits(_)
Digits(n) == IF n < 10 THEN <<48 + n>> ELSE Append(Digits(n \div 10), 48 + (n % 10))

\* line 622: the marker, which states len(result)
Marker(n) ==
  <<10, 91, 46, 46, 46, 32, 20869, 23481, 34987, 25130, 26029, 32, 40>>
  \o Digits(n)
  \o <<32, 23383, 31526, 41, 32, 46, 46, 46, 93, 10>>

\* the ratios of the model, which floats hold exactly
Ratios == { [num |-> 0, den |-> 1], [num |-> 1, den |-> 2], [num |-> 1, den |-> 1] }

\* int(x * ratio): the product, rounded towards zero
IntTimes(x, ratio) ==
  IF x >= 0 THEN (x * ratio.num) \div ratio.den ELSE 0 - (((0 - x) * ratio.num) \div ratio.den)

\* the context_window arguments of the model: None, or a number of tokens for
\* which int(context_window * 0.3) is floor(context_window * 3 / 10)
ContextWindows == { [given |-> FALSE, tokens |-> 0], [given |-> TRUE, tokens |-> 100] }

\* the hard_limit arguments of the model
HardLimits == {1, 5, 26, 30, 36, 50}

\* result[:n]
SliceTo(text, n) ==
  IF n >= 0 THEN SubSeq(text, 1, IF n < Len(text) THEN n ELSE Len(text))
  ELSE SubSeq(text, 1, Len(text) + n)

\* result[-n:] for n > 0
SliceLast(text, n) ==
  IF n < Len(text) THEN SubSeq(text, Len(text) - n + 1, Len(text)) ELSE text

\* lines 605-612: min(hard_limit, context_limit)
max_length(context_window, hard_limit) ==
  LET context_limit == IF ~context_window.given THEN hard_limit
                       ELSE (context_window.tokens * 3) \div 10
  IN IF hard_limit <= context_limit THEN hard_limit ELSE context_limit

\* lines 618-629: head_length and tail_length, adjusted when the marker does not fit
head_tail(n, limit, head_ratio, tail_ratio) ==
  LET head_length == IntTimes(limit, head_ratio)
      tail_length == IntTimes(limit, tail_ratio)
      available == limit - Len(Marker(n))
  IN IF head_length + tail_length + Len(Marker(n)) > limit
     THEN [head |-> IntTimes(available, head_ratio),
           tail |-> available - IntTimes(available, head_ratio)]
     ELSE [head |-> head_length, tail |-> tail_length]

\* truncate_tool_result(result, context_window, head_ratio, tail_ratio, hard_limit)
truncate_tool_result(text, context_window, head_ratio, tail_ratio, hard_limit) ==
  LET limit == max_length(context_window, hard_limit)
      ht == head_tail(Len(text), limit, head_ratio, tail_ratio)
  IN IF text = <<>> THEN text
     ELSE IF Len(text) <= limit THEN text
     ELSE SliceTo(text, ht.head) \o Marker(Len(text))
          \o (IF ht.tail > 0 THEN SliceLast(text, ht.tail) ELSE <<>>)

\* no call of truncate_tool_result is under way
NoTruncation ==
  [pc |-> "none", result |-> <<>>, context_window |-> [given |-> FALSE, tokens |-> 0],
   head_ratio |-> [num |-> 1, den |-> 2], tail_ratio |-> [num |-> 1, den |-> 2],
   hard_limit |-> 0, out |-> <<>>, again |-> <<>>]

\* ------------------------------------------- SubAgent._get_tool_definitions
\* the names a tool may be registered under, and the entries of allowed_tools:
\* those names, the name of a tool that is never registered, and the wildcard
ToolNames == {"grep", "finish", "slow"}
AllowEntries == ToolNames \cup {"missing", "*"}

\* SubAgent._get_allowed_tools that grants every registered tool
get_allowed_tools_all(registry, allowed_tools) == registry

\* SubAgent._get_allowed_tools: the keys of the registry for a wildcard
get_allowed_tools(registry, allowed_tools) ==
  IF "*" \in allowed_tools THEN registry ELSE allowed_tools

\* ToolRegistry._to_format(tool.get_definition())
to_format(name) == [type |-> "function", name |-> name]

\* SubAgent._get_tool_definitions
get_tool_definitions(registry, allowed_tools) ==
  { to_format(name) : name \in { n \in registry : n \in get_allowed_tools(registry, allowed_tools) } }

\* no sub-agent is exercised directly
\* no tool call has been executed
NoToolCall == [name |-> "none", ran |-> FALSE, refused |-> FALSE]

\* one turn of SubAgent._execute_subagent_tools (lines 183-208), as of
\* Agent._execute_tools (lines 310-337): execute_tool(tool_name, **args) on the
\* registry. The tool's execute is run when the name is registered, and the
\* call is refused ("Error: Unknown tool: ...", tools.py:464-468) when it is
\* not; the allow-list is not consulted
execute_call(registry, allowed_tools, name) ==
  [name |-> name, ran |-> name \in registry, refused |-> name \notin registry]

NoCaller ==
  [pc |-> "none", registry |-> {}, allowed_tools |-> {}, requests |-> 0,
   tools |-> [given |-> FALSE, definitions |-> {}], called |-> NoToolCall]

\* ------------------------------------------------------------ MemoryStore
\* keys are numbers: keys 1 and 2 are set, overwritten and deleted freely, the
\* keys from 3 on are set once each, in order, to fill the store
MaxKeys == 101
SmallKeys == {1, 2}
StoreValues == {"a", "b"}

\* the default of the limit parameter of list_keys
ListLimit == 100

\* a dict is the sequence of its items in insertion order
DictKeys(dict) == { dict[i].key : i \in 1..Len(dict) }

\* dict.get(key): found is FALSE for None
DictGet(dict, key) ==
  IF key \in DictKeys(dict)
  THEN [found |-> TRUE, value |-> dict[CHOOSE i \in 1..Len(dict) : dict[i].key = key].value]
  ELSE [found |-> FALSE, value |-> ""]

\* dict[key] = value: a key that is present keeps its place
DictSet(dict, key, value) ==
  IF key \in DictKeys(dict)
  THEN [i \in 1..Len(dict) |-> IF dict[i].key = key THEN [key |-> key, value |-> value] ELSE dict[i]]
  ELSE Append(dict, [key |-> key, value |-> value])

\* del dict[key]
DictDel(dict, key) == SelectSeq(dict, LAMBDA item : item.key # key)

\* MemoryStore.__init__
EmptyStore == [data |-> <<>>, metadata |-> <<>>]

\* MemoryStore.set: the timestamp is time.time(), kept as one token
store_set(st, key, value) ==
  [data |-> DictSet(st.data, key, value), metadata |-> DictSet(st.metadata, key, "timestamp")]

\* MemoryStore.get
store_get(st, key) == DictGet(st.data, key)

\* MemoryStore.delete that leaves the metadata of the key behind
store_delete_data_only(st, key) ==
  IF key \in DictKeys(st.data)
  THEN [st |-> [data |-> DictDel(st.data, key), metadata |-> st.metadata], returned |-> TRUE]
  ELSE [st |-> st, returned |-> FALSE]

\* MemoryStore.delete: the store afterwards and the value returned
store_delete(st, key) ==
  IF key \in DictKeys(st.data)
  THEN [st |-> [data |-> DictDel(st.data, key),
                metadata |-> IF key \in DictKeys(st.metadata)
                             THEN DictDel(st.metadata, key) ELSE st.metadata],
        returned |-> TRUE]
  ELSE [st |-> st, returned |-> FALSE]

\* MemoryStore.list_keys(limit): list(self._data.keys())[:limit]
list_keys(st, limit) ==
  [i \in 1..(IF limit < Len(st.data) THEN limit ELSE Len(st.data)) |-> st.data[i].key]

\* MemoryStore.clear
store_clear(st) == EmptyStore

\* no call of a MemoryStore has returned anything yet
NoCall == [op |-> "none", key |-> 0, returned |-> FALSE, keys |-> <<>>]

\* no MemoryStore is exercised directly
NoStoreUse ==
  [pc |-> "none", st |-> EmptyStore, latest |-> [k \in 1..MaxKeys |-> [found |-> FALSE, value |-> ""]],
   last |-> NoCall]

\* ------------------------------------------------------------- MemoryTool
\* the sessions (chat() runs of two unrelated agents) that call the memory tool,
\* and the keys and the actions of their calls
Sessions == {"A", "B"}
MemoryKeys == {"k1", "k2"}
MemoryReads == {"get", "list", "search"}
MemoryWrites == {"set", "delete", "clear"}

\* MemoryStore.search("") with the default limit: every item matches
store_search(st) == [i \in 1..Len(st.data) |-> [key |-> st.data[i].key, value |-> st.data[i].value]]

\* MemoryTool.execute on the store `st`: the text returned. A search result is
\* kept as the items it lists
memory_output(st, action, key, value) ==
  IF action = "set" THEN <<"Success: Stored '", key, "'">>
  ELSE IF action = "get"
  THEN (IF store_get(st, key).found THEN <<store_get(st, key).value>> ELSE <<"Not found: ", key>>)
  ELSE IF action = "search"
  THEN (IF store_search(st) = <<>> THEN <<"No results found for: ">>
        ELSE [i \in 1..Len(st.data) |-> st.data[i].key \o ":" \o st.data[i].value])
  ELSE IF action = "delete"
  THEN (IF store_delete(st, key).returned THEN <<"Deleted: ", key>> ELSE <<"Not found: ", key>>)
  ELSE IF action = "list"
  THEN (IF list_keys(st, 10) = <<>> THEN <<"(empty storage)">> ELSE list_keys(st, 10))
  ELSE <<"Storage cleared">>

\* MemoryTool.execute on the store `st`: the store afterwards
memory_effect(st, action, key, value) ==
  IF action = "set" THEN store_set(st, key, value)
  ELSE IF action = "delete" THEN store_delete(st, key).st
  ELSE IF action = "clear" THEN store_clear(st)
  ELSE st

\* no memory tool has been called: the module global _memory_store is None
NoMemory ==
  [pc |-> "none", created |-> FALSE, global |-> EmptyStore,
   own |-> [s \in Sessions |-> EmptyStore],
   last |-> [session |-> "A", action |-> "none", key |-> "k1", output |-> <<>>]]

\* ----------------------------------------------------------- rate limiter
\* a limiter that never sleeps
rate_limit_no_sleep(now, last_request_time, rate_limit_delay) == 0

\* agent.py:157-160 and BaseAgent._apply_rate_limit: the argument of time.sleep
\* when the limiter is entered at time `now`, 0 when it does not sleep
rate_limit_sleep(now, last_request_time, rate_limit_delay) ==
  LET elapsed == now - last_request_time
  IN  IF elapsed < rate_limit_delay THEN rate_limit_delay - elapsed ELSE 0

\* an agent after construction: _last_request_time = 0 (agent.py:46, base.py:47).
\* `wake` is the time before which a running time.sleep does not return; `slept`
\* says whether the limiter slept before the last request, `again` whether the
\* running chat() is a later one of the same agent (history)
NewAgent ==
  [pc |-> "idle", last_request_time |-> 0, wake |-> 0, slept |-> FALSE, again |-> FALSE]

\* no agent is on the event loop. The clock starts at RateLimitDelay: time.time()
\* is seconds since 1970, far beyond the delay
NoRate ==
  [pc |-> "none", now |-> RateLimitDelay, thread |-> "free",
   agents |-> [s \in Sessions |-> NewAgent]]

\* ------------------------------------------------------------ EventEmitter
\* what a handler does with an event: it returns, raises an Exception, or raises
\* a BaseException that is no Exception (SystemExit, KeyboardInterrupt)
HandlerKinds == {"returns", "raises", "exits"}
EventTypes == {"model_start", "tool_result"}

\* an `except Exception:` clause
except_exception(raised) == raised = "raises"

\* the bare `except:` of _dispatch (events.py:123): it catches whatever is raised
bare_except(raised) == raised \in {"raises", "exits"}

\* EventEmitter._dispatch from the i-th handler on: the handlers that were handed
\* the event, in order, and what escaped the loop
RECURSIVE dispatch_from(_, _)
dispatch_from(handlers, i) ==
  IF i > Len(handlers) THEN [received |-> <<>>, escaped |-> "none"]
  ELSE IF handlers[i] = "returns" \/ bare_except(handlers[i])
  THEN LET rest == dispatch_from(handlers, i + 1)
       IN  [received |-> <<i>> \o rest.received, escaped |-> rest.escaped]
  ELSE [received |-> <<i>>, escaped |-> handlers[i]]

_dispatch(handlers) == dispatch_from(handlers, 1)

\* EventEmitter.emit: put_nowait on the queue (a full queue is ignored), then
\* _dispatch, then `return True`
emit(em, event_type) ==
  LET d == _dispatch(em.handlers)
  IN  [em EXCEPT
         !.queued = IF @ < MaxQueueSize THEN @ + 1 ELSE @,
         !.emits = @ + 1,
         !.last = [type |-> event_type, received |-> d.received,
                   returned |-> d.escaped = "none", raised |-> d.escaped],
         !.loop = IF d.escaped = "none" THEN @ ELSE "raised"]

\* no EventEmitter is in use. `last` is the last emit() (history), `loop` the
\* position of the loop that calls emit()
NoEmitter ==
  [pc |-> "none", handlers |-> <<>>, queued |-> 0, emits |-> 0, loop |-> "running",
   last |-> [type |-> "none", received |-> <<>>, returned |-> FALSE, raised |-> "none"]]

\* -------------------------------------------------------- SubAgentManager
\* the names and the settings of the SubAgentConfig values that are registered
ManagerNames == {"coder", "reviewer"}
ManagerConfigs ==
  [name : ManagerNames, max_iterations : {1, 50}, allowed_tools : {{}, {"*"}}]

\* dict.get(name) on _configs: a dict is a function on the names, None where
\* the name is no key
NoConfigs == [n \in ManagerNames |-> None]

\* SubAgentManager.register, line 225: self._configs[config.name] = config
register(_configs, c) == [_configs EXCEPT ![c.name] = c]

\* SubAgentManager.get_config, and the lookup of execute_task_async (line 268)
manager_get_config(_configs, name) == _configs[name]

\* no SubAgentManager is exercised directly
NoManager ==
  [pc |-> "none", _configs |-> NoConfigs, first |-> NoConfigs,
   looked |-> [name |-> "none", config |-> None]]

\* --------------------------------------- _find_tool_result_by_description
\* an output is the sequence of its lines (output.strip().split("\n")), a line
\* the sequence of its fields (line.split(":")): a line of one field has no colon
PathNames == <<"p1", "p2", "p3", "p4", "p5", "p6", "p7">>
Lines == { <<"a.py", "1">>, <<"plain">>, <<"Error", " x">>, <<"", "x">> }
Outputs ==
  { <<l>> : l \in Lines } \cup { <<l1, l2>> : l1 \in Lines, l2 \in Lines }
  \cup { [i \in 1..n |-> <<PathNames[i], "1">>] : n \in (MaxLines - 1)..MaxLines }

\* str.lower() of a tool name
Lower(name) == IF name = "Grep" THEN "grep" ELSE name

\* a description, by what the code asks of it: the lower-case names that occur
\* in it, and whether the marker of "the most recent" occurs in it
Descriptions ==
  { [names |-> {"grep"}, recent |-> FALSE], [names |-> {"read"}, recent |-> FALSE],
    [names |-> {}, recent |-> TRUE] }

\* ":" in line
HasColon(line) == Len(line) >= 2

\* line.startswith("Error") for the first field of a line
StartsWithErrorWord(field) == field = "Error"

\* lines 178-181: the first fields of the lines that have a colon and whose
\* first field is neither empty nor an error
paths_of(output) ==
  LET kept == SelectSeq(output, LAMBDA line :
                 HasColon(line) /\ line[1] # "" /\ ~StartsWithErrorWord(line[1]))
  IN  [i \in 1..Len(kept) |-> <<kept[i][1]>>]

\* lines 176-184: what is returned for the output of the matched result
described_output(output) ==
  IF Len(output) >= 2 /\ paths_of(output) # <<>>
  THEN SubSeq(paths_of(output), 1, IF Len(paths_of(output)) < MaxPaths
                                   THEN Len(paths_of(output)) ELSE MaxPaths)
  ELSE output

\* lines 165-186: the results are searched from the latest one back
find_by_description(description, _tool_results) ==
  LET hits == { i \in 1..Len(_tool_results) :
                  Lower(_tool_results[i].tool_name) \in description.names \/ description.recent }
  IN  IF hits = {} THEN [found |-> FALSE, output |-> <<>>]
      ELSE [found |-> TRUE,
            output |-> described_output(
                         _tool_results[CHOOSE i \in hits : \A j \in hits : j <= i].output)]

\* no _find_tool_result_by_description call is being made
NoFinder ==
  [pc |-> "none", _tool_results |-> <<>>, description |-> [names |-> {}, recent |-> FALSE],
   returned |-> [found |-> FALSE, output |-> <<>>]]

\* ---------------------------------------------------- message history
\* the content of the assistant message of the n-th iteration
TurnNames == <<"r1", "r2", "r3", "r4">>

\* Agent._prune_messages returns its argument itself (line 88) only when the
\* list is within the window; otherwise it builds a new list (lines 91-97)
prune_returns_argument(messages, max_msgs) == Len(messages) <= max_msgs

\* no chat() of the message-history model has been made; `appended` are the
\* messages the loop appended (history)
NoHistory ==
  [pc |-> "none", max_messages |-> 0, _message_history |-> <<>>, chat |-> <<>>, loop |-> <<>>,
   aliased |-> FALSE, iterations |-> 0, appended |-> <<>>]

\* ------------------------------- one EventEmitter shared by two sessions
\* EventEmitter.set_session_id: the emitter has one _session_id
set_session_id(em, session_id) == [em EXCEPT !._session_id = session_id]

RECURSIVE emit_stamped(_, _, _)
\* EventEmitter.emit called for each of `types` in turn by the code of session
\* `by`: the Event is built with session_id=self._session_id (events.py:110);
\* `by` is history
emit_stamped(em, by, types) ==
  IF types = <<>> THEN em
  ELSE emit_stamped(
         [em EXCEPT !.events =
            Append(@, [type |-> Head(types), session_id |-> em._session_id, by |-> by])],
         by, Tail(types))

\* no session uses the shared emitter
NoShared ==
  [_session_id |-> None, pc |-> [s \in Sessions |-> "none"],
   turns |-> [s \in Sessions |-> 0], events |-> <<>>]

\* ------------------------------------------- EventEmitter and its _lock
\* the threads that call the emitter, and the handlers: one that returns, and
\* ones that call emit, add_handler or remove_handler on the same emitter
LockThreads == {"T1", "T2"}
HandlerCalls == {"returns", "emits", "adds", "removes"}

\* the call a handler makes while it handles an event
call_of(kind) ==
  IF kind = "emits" THEN [method |-> "emit", arg |-> "none"]
  ELSE IF kind = "adds" THEN [method |-> "add_handler", arg |-> "returns"]
  ELSE [method |-> "remove_handler", arg |-> "removes"]

\* the calls threads make on the emitter
TopCalls ==
  { [method |-> "emit", arg |-> "none"] }
  \cup [method : {"add_handler", "remove_handler"}, arg : HandlerCalls]

RECURSIVE list_remove(_, _)
\* list.remove(handler): the first occurrence, when there is one
list_remove(handlers, handler) ==
  IF handlers = <<>> THEN <<>>
  ELSE IF Head(handlers) = handler THEN Tail(handlers)
  ELSE <<Head(handlers)>> \o list_remove(Tail(handlers), handler)

\* the body of add_handler and of remove_handler (events.py:127, 131-134)
under_lock(handlers, call) ==
  IF call.method = "add_handler" THEN Append(handlers, call.arg)
  ELSE list_remove(handlers, call.arg)

\* Queue.put_nowait inside try/except: (events.py:112-115): a full queue is ignored
put_nowait(queued) == IF queued < MaxQueueSize THEN queued + 1 ELSE queued

\* no thread uses the emitter. `stack` holds, per thread, the calls on the
\* emitter that have not returned, the innermost last, each with the position
\* of its _dispatch loop
NoLocking ==
  [_handlers |-> <<>>, _lock |-> "free", queued |-> 0,
   pc |-> [t \in LockThreads |-> "none"], stack |-> [t \in LockThreads |-> <<>>],
   calls |-> [t \in LockThreads |-> 0]]

\* ----------------------------------------------------------------- state
VARIABLES
  config,        \* Agent.config: [max_iterations, max_messages]
  configs,       \* SubAgentManager._configs: the registered SubAgentConfig values, one per name
  pc,            \* position of the top-level caller / Agent._run_agent_loop
  stream,        \* the stream argument of the current chat()
  messages,      \* the local list `messages` of _run_agent_loop
  iterations,    \* the local counter `iterations`
  result,        \* the local dict `result`
  elapsed,       \* time.time() - start_time, in seconds, when it was last compared with the budget
  pendingSub,    \* subagent_calls not yet executed
  pendingTools,  \* tool_only_calls not yet executed
  results,       \* `results` of the running _execute_tools
  tool_results,  \* the local `tool_results`: what _execute_tools last returned
  response,      \* the local `response`: what model_client.chat last returned
  sub,           \* the running SubAgent.execute (NoSub when there is none)
  delegation,    \* what run_subagent / execute_task_async last returned to a public caller
  sent,          \* the history passed with the last model request
  requests,      \* model requests made by the current chat() (history)
  modelFailed,   \* the Model Client has failed in the current chat() (history)
  ranFor,        \* ids of the tool calls for which a nested loop was started (history)
  dispatched,    \* names of the ordinary tools executed by the current chat(), in order (history)
  finalSignal,   \* message of the final-answer signal a tool has raised in the current chat() (history)
  executed,      \* the calls the current chat() has started to execute, in order (history)
  resolver,      \* a BaseAgent on which _resolve_placeholders is called directly
  truncation,    \* a call of truncate_tool_result: its arguments and what it returned
  caller,        \* a SubAgent whose _call_model is called directly, and its tool registry
  memory,        \* the module global _memory_store and the sessions that call the memory
                 \* tool; `own` is, per session, the store its own calls alone would
                 \* have made (history), `last` the last call and its output
  store,         \* a MemoryStore whose methods are called directly; `latest` is the value
                 \* last set and not deleted or cleared since, per key (history), `last`
                 \* the last call and what it returned
  rate,          \* two agents whose loops run on one event loop, its thread and the
                 \* clock time.time(): per agent its position at the rate limiter and
                 \* its _last_request_time
  emitter,       \* an EventEmitter, its handlers, and the emit() calls of a loop
  manager,       \* a SubAgentManager whose register and get_config are called directly:
                 \* its _configs, per name the config first registered (history), and
                 \* the last lookup
  finder,        \* a BaseAgent on which _find_tool_result_by_description is called
                 \* directly: its _tool_results, the description, and what was returned
  msgs,          \* the list objects of one chat(): `chat` is the list `messages` of
                 \* Agent.chat, `loop` the list `messages` of _run_agent_loop, `aliased`
                 \* says whether the two names denote the same list object
  shared,        \* one EventEmitter used by two sessions: its _session_id, where each
                 \* session's chat() is, and the events emitted, each with the session
                 \* whose code emitted it (history)
  locking        \* an EventEmitter, its _lock and _handlers, and threads that call it

\* the variables of the orchestration loop
loopVars == <<config, configs, pc, stream, messages, iterations, result, elapsed,
              pendingSub, pendingTools, results, tool_results, response, sub, delegation, sent,
              requests, modelFailed, ranFor, dispatched, finalSignal, executed>>

\* the variables of the functions and objects that are exercised directly
direct == <<resolver, truncation, caller, store, memory, rate, emitter, manager, finder,
            msgs, shared, locking>>

vars == <<loopVars, direct>>

\* result dict of _run_agent_loop at line 150: it has no "error" key
Result0 ==
  [success |-> FALSE, content |-> <<>>, tool_calls |-> <<>>, subagent_results |-> <<>>,
   iterations |-> 0, error |-> None]

Idle == pc \in {"idle", "done", "raised"}

\* the session budget of agent.py:229 and agent.py:243
SessionBudget == config.max_iterations * PerIterationBudget

\* what `time.time() - start_time` can be when it is compared with a budget:
\* within it, or beyond it
Clock(budget) == {0, budget + 1}

\* the agent after construction, no chat() running
LoopInit ==
  /\ config \in [max_iterations : {MaxIterationsBound}, max_messages : {1, MaxMessagesBound}]
  /\ configs = {}
  /\ pc = "idle"
  /\ stream = FALSE
  /\ messages = <<>>
  /\ iterations = 0
  /\ result = Result0
  /\ elapsed = 0
  /\ pendingSub = <<>>
  /\ pendingTools = <<>>
  /\ results = <<>>
  /\ tool_results = <<>>
  /\ response = NoResponse
  /\ sub = NoSub
  /\ delegation = SubResult0
  /\ sent = <<>>
  /\ requests = 0
  /\ modelFailed = FALSE
  /\ ranFor = {}
  /\ dispatched = <<>>
  /\ finalSignal = None
  /\ executed = <<>>

Init ==
  /\ LoopInit
  /\ resolver = NoResolver
  /\ truncation = NoTruncation
  /\ caller = NoCaller
  /\ store = NoStoreUse
  /\ memory = NoMemory
  /\ rate = NoRate
  /\ emitter = NoEmitter
  /\ manager = NoManager
  /\ finder = NoFinder
  /\ msgs = NoHistory
  /\ shared = NoShared
  /\ locking = NoLocking

\* the locals of a chat() that has returned no longer exist
NoChat ==
  /\ stream' = FALSE
  /\ messages' = <<>>
  /\ iterations' = 0
  /\ result' = Result0
  /\ elapsed' = 0
  /\ pendingSub' = <<>>
  /\ pendingTools' = <<>>
  /\ results' = <<>>
  /\ tool_results' = <<>>
  /\ response' = NoResponse
  /\ sent' = <<>>
  /\ requests' = 0
  /\ modelFailed' = FALSE
  /\ ranFor' = {}
  /\ dispatched' = <<>>
  /\ finalSignal' = None
  /\ executed' = <<>>

\* SubAgentManager.register, called by the application between two runs
Register(c) ==
  /\ Idle
  /\ configs' = { d \in configs : d.name # c.name } \cup {c}
  /\ NoChat
  /\ pc' = "idle"
  /\ delegation' = SubResult0
  /\ UNCHANGED <<direct, config, sub>>

\* the (stream, context) arguments of the chat() calls of the model: context
\* messages are passed with streaming calls only
ChatInputs ==
  { [stream |-> FALSE, context |-> <<>>],
    [stream |-> TRUE, context |-> <<>>],
    [stream |-> TRUE, context |-> <<UserMsg(<<"earlier">>)>>] }

\* Agent.chat up to the call of _run_agent_loop, and lines 150-151 of the loop
Chat(s, context) ==
  /\ Idle
  /\ stream' = s
  /\ messages' = context \o <<SystemMsg, UserMsg(<<"hi">>)>>
  /\ iterations' = 0
  /\ result' = Result0
  /\ elapsed' = 0
  /\ pendingSub' = <<>>
  /\ pendingTools' = <<>>
  /\ results' = <<>>
  /\ tool_results' = <<>>
  /\ response' = NoResponse
  /\ sent' = <<>>
  /\ requests' = 0
  /\ modelFailed' = FALSE
  /\ ranFor' = {}
  /\ dispatched' = <<>>
  /\ finalSignal' = None
  /\ executed' = <<>>
  /\ pc' = "loop"
  /\ delegation' = SubResult0
  /\ UNCHANGED <<direct, config, configs, sub>>

\* lines 246-249: the loop has been left
Finished(r, its) == [r EXCEPT !.iterations = its]

\* `while iterations < max_iterations` is false: lines 246-249
LoopExhausted ==
  /\ pc = "loop"
  /\ ~LoopGuard(iterations, config.max_iterations)
  /\ result' = Finished(result, iterations)
  /\ pc' = "done"
  /\ UNCHANGED <<direct, executed, config, configs, stream, messages, iterations, elapsed, pendingSub,
                 pendingTools, tool_results, sub, delegation, sent, requests, modelFailed,
                 ranFor, results, response, dispatched, finalSignal>>

\* lines 153-168 when model_client.chat (or the iteration of its stream) raises:
\* nothing catches the exception, it leaves _run_agent_loop and chat
ModelRaises ==
  /\ pc = "loop"
  /\ LoopGuard(iterations, config.max_iterations)
  /\ iterations' = iterations + 1
  /\ messages' = prune_messages(messages, config.max_messages)
  /\ sent' = messages'
  /\ requests' = requests + 1
  /\ response' = CHOOSE r \in Responses(stream, iterations + 1) : r.raises
  /\ modelFailed' = TRUE
  /\ pc' = "raised"
  /\ UNCHANGED <<direct, executed, config, configs, stream, result, elapsed, pendingSub, pendingTools,
                 tool_results, sub, delegation, ranFor, results, dispatched, finalSignal>>

\* lines 153-244 for a response that is returned: rate limit, prune, request,
\* collect, append the assistant message, then branch
ModelResponds(resp, now) ==
  /\ pc = "loop"
  /\ LoopGuard(iterations, config.max_iterations)
  /\ ~resp.raises
  /\ response' = resp
  /\ LET n == iterations + 1
         pruned == prune_messages(messages, config.max_messages)
         content == CollectContent(resp, stream)
         tool_calls == resp.tool_calls
         r1 == [result EXCEPT !.content = content]
     IN /\ iterations' = n
        /\ sent' = pruned
        /\ requests' = requests + 1
        /\ modelFailed' = (modelFailed \/ resp.stop_reason = "error")
        /\ IF tool_calls # <<>> /\ stream
           THEN \* line 195: tc.function on a raw mapping raises AttributeError
                /\ messages' = Append(pruned, AssistantMsg(content, <<>>))
                /\ pc' = "raised"
                /\ UNCHANGED <<result, pendingSub, pendingTools, elapsed>>
           ELSE /\ messages' = Append(pruned, AssistantMsg(content, tool_calls))
                /\ IF tool_calls # <<>>
                   THEN /\ result' = r1
                        /\ pendingSub' = SelectSeq(tool_calls, is_subagent_call)
                        /\ pendingTools' = SelectSeq(tool_calls, is_tool_only_call)
                        /\ pc' = IF pendingSub' # <<>> THEN "subagents" ELSE "tools"
                        /\ UNCHANGED elapsed
                   ELSE /\ UNCHANGED <<pendingSub, pendingTools>>
                        /\ IF StopsWithSuccess(resp, stream)
                           THEN /\ result' = Finished([r1 EXCEPT !.success = TRUE], n)
                                /\ pc' = "done"
                                /\ UNCHANGED elapsed
                           ELSE \* line 243
                                /\ elapsed' = now
                                /\ IF now > SessionBudget
                                   THEN /\ result' = Finished(r1, n)
                                        /\ pc' = "done"
                                   ELSE /\ result' = r1
                                        /\ pc' = "loop"
  /\ UNCHANGED <<direct, executed, config, configs, stream, tool_results, sub, delegation, ranFor,
                 results, dispatched, finalSignal>>

\* SubAgentManager.get_config / `agent_name in self._configs`
IsRegistered(name) == \E c \in configs : c.name = name
get_config(name) == CHOOSE c \in configs : c.name = name

\* lines 213-221: the delegation result is recorded and answered by a tool message
RecordSubagent(id, subagent_name, res) ==
  /\ result' = [result EXCEPT !.subagent_results =
                  Append(@, [tool_use_id |-> id, subagent_name |-> subagent_name, result |-> res])]
  /\ messages' = Append(messages, ToolMsg(<<"[">> \o subagent_name \o <<"] ">> \o res.summary, id))
  /\ pendingSub' = Tail(pendingSub)
  /\ pc' = IF Tail(pendingSub) # <<>> THEN "subagents"
           ELSE IF pendingTools # <<>> THEN "tools" ELSE "iter_end"

\* what `executed` records of a call: the call, the arguments it is executed
\* with, and its output (None while it has none)
Executed(tc, input, output) ==
  [id |-> tc.id, name |-> tc.name, arguments |-> tc.arguments, input |-> input, output |-> output]

\* Agent._execute_subagent for a name get_config does not find: lines 260-301
SubagentUnknown ==
  /\ pc = "subagents"
  /\ pendingSub # <<>>
  /\ LET tc == Head(pendingSub)
         subagent_name == ReplacePrefix(tc.name)
     IN /\ ~IsRegistered(subagent_name)
        /\ RecordSubagent(tc.id, subagent_name,
             [SubResult0 EXCEPT !.error = <<"Unknown subagent: ">> \o subagent_name])
        /\ executed' = Append(executed, Executed(tc, parse_tool_args(tc.arguments), None))
  /\ UNCHANGED <<direct, config, configs, stream, iterations, elapsed, pendingTools, tool_results,
                 sub, delegation, sent, requests, modelFailed, ranFor, results, response,
                 dispatched, finalSignal>>

\* Agent._execute_subagent for a registered name: execute_task_async starts the
\* nested loop (never streaming: the stream argument is not passed on)
SubagentStart ==
  /\ pc = "subagents"
  /\ pendingSub # <<>>
  /\ LET tc == Head(pendingSub)
         subagent_name == ReplacePrefix(tc.name)
     IN /\ IsRegistered(subagent_name)
        /\ sub' = StartSub(get_config(subagent_name), "loop", tc.id, subagent_name, FALSE)
        /\ ranFor' = ranFor \cup {tc.id}
        /\ executed' = Append(executed, Executed(tc, parse_tool_args(tc.arguments), None))
  /\ pc' = "in_subagent"
  /\ UNCHANGED <<direct, config, configs, stream, messages, iterations, result, elapsed, pendingSub,
                 pendingTools, tool_results, delegation, sent, requests, modelFailed, results,
                 response, dispatched, finalSignal>>

\* the nested loop has returned to Agent._execute_subagent: lines 296-301, 213-221
SubagentReturn ==
  /\ pc = "in_subagent"
  /\ sub.pc = "done"
  /\ RecordSubagent(sub.tool_use_id, sub.subagent_name, sub.result)
  /\ sub' = NoSub
  /\ UNCHANGED <<direct, executed, config, configs, stream, iterations, elapsed, pendingTools, tool_results,
                 delegation, sent, requests, modelFailed, ranFor, results, response,
                 dispatched, finalSignal>>

\* Agent._execute_tools, line 323: json.loads raises on malformed arguments, and
\* nothing catches it
ToolArgsRaise ==
  /\ pc = "tools"
  /\ pendingTools # <<>>
  /\ ~JsonLoads(Head(pendingTools).arguments)
  /\ pc' = "raised"
  /\ UNCHANGED <<direct, executed, config, configs, stream, messages, iterations, result, elapsed, pendingSub,
                 pendingTools, tool_results, sub, delegation, sent, requests, modelFailed,
                 ranFor, results, response, dispatched, finalSignal>>

\* one turn of the for loop of Agent._execute_tools (lines 311-337); after the
\* last call, lines 225-227 record the names and append the tool messages
ExecTool(outcome) ==
  /\ pc = "tools"
  /\ pendingTools # <<>>
  /\ LET tc == Head(pendingTools)
         rs == Append(results, ToolResult(tc, execute_tool(tc.name, outcome)))
     IN /\ JsonLoads(tc.arguments)
        /\ outcome \in ToolOutcomes(tc.name)
        /\ ExecutorReturns(outcome)
        /\ ExceptException(outcome)
        /\ pendingTools' = Tail(pendingTools)
        /\ dispatched' = Append(dispatched, tc.name)
        /\ executed' = Append(executed, Executed(tc, json_loads(tc.arguments), Last(rs).output))
        /\ finalSignal' = IF outcome.kind = "raise" THEN outcome.text ELSE finalSignal
        /\ IF Tail(pendingTools) = <<>>
           THEN /\ tool_results' = rs
                /\ result' = [result EXCEPT !.tool_calls =
                                @ \o [i \in 1..Len(rs) |-> rs[i].tool_name]]
                /\ messages' = messages \o
                     [i \in 1..Len(rs) |-> ToolMsg(rs[i].output, rs[i].tool_use_id)]
                /\ results' = <<>>
                /\ pc' = "iter_end"
           ELSE /\ results' = rs
                /\ UNCHANGED <<tool_results, result, messages, pc>>
  /\ UNCHANGED <<direct, config, configs, stream, iterations, elapsed, pendingSub, sub, delegation,
                 sent, requests, modelFailed, ranFor, response>>

\* Agent._execute_tools, line 329, for a tool that never completes: execute_tool
\* does not return (tools.py:486-487), and neither does the loop
ToolHangs ==
  /\ pc = "tools"
  /\ pendingTools # <<>>
  /\ JsonLoads(Head(pendingTools).arguments)
  /\ \E o \in ToolOutcomes(Head(pendingTools).name) : ~ExecutorReturns(o)
  /\ executed' = Append(executed, Executed(Head(pendingTools),
                                            json_loads(Head(pendingTools).arguments), None))
  /\ pc' = "hung"
  /\ UNCHANGED <<direct, config, configs, stream, messages, iterations, result, elapsed, pendingSub,
                 pendingTools, tool_results, sub, delegation, sent, requests, modelFailed,
                 ranFor, results, response, dispatched, finalSignal>>

\* Agent._execute_tools, line 329, for a tool that raises what is not an
\* Exception: neither tools.py:495 nor agent.py:331 catches it, it leaves chat()
ToolEscapes ==
  /\ pc = "tools"
  /\ pendingTools # <<>>
  /\ JsonLoads(Head(pendingTools).arguments)
  /\ \E o \in ToolOutcomes(Head(pendingTools).name) : ~ExceptException(o)
  /\ executed' = Append(executed, Executed(Head(pendingTools),
                                            json_loads(Head(pendingTools).arguments), None))
  /\ pc' = "raised"
  /\ UNCHANGED <<direct, config, configs, stream, messages, iterations, result, elapsed, pendingSub,
                 pendingTools, tool_results, sub, delegation, sent, requests, modelFailed,
                 ranFor, results, response, dispatched, finalSignal>>

\* lines 229-231: the session timeout check that ends a dispatch iteration
IterEnd(now) ==
  /\ pc = "iter_end"
  /\ elapsed' = now
  /\ IF now > SessionBudget
     THEN /\ result' = Finished(result, iterations)
          /\ pc' = "done"
     ELSE /\ pc' = "loop"
          /\ UNCHANGED result
  /\ UNCHANGED <<direct, executed, config, configs, stream, messages, iterations, pendingSub,
                 pendingTools, tool_results, sub, delegation, sent, requests, modelFailed,
                 ranFor, results, response, dispatched, finalSignal>>

\* ------------------------------------------------- SubAgent.execute
\* lines 173-178: the finally block, then return
SubDone(s) == [s EXCEPT !.pc = "done", !.result.tool_calls = s.stats_tool_calls]

\* lines 163-165 (after _should_stop was false): the timeout check
SubAfterIteration(s, now) ==
  IF now > s.timeout
  THEN SubDone([s EXCEPT !.elapsed = now, !.result.error = <<"Timeout">>])
  ELSE [s EXCEPT !.elapsed = now, !.pc = "loop"]

\* sub_agent.py:128, `for iteration in range(max_iterations)` has a next turn
InRange(iteration, max_iterations) == iteration < max_iterations

\* BaseAgent._should_stop
should_stop(resp, s, tool_calls) == IF s THEN tool_calls = <<>> ELSE resp.stop_reason = "stop"

\* lines 128-134 when _call_model (or the iteration of its stream) raises:
\* `except Exception` records str(e)
SubModelRaises ==
  /\ sub.pc = "loop"
  /\ InRange(sub.iterations, sub.max_iterations)
  /\ LET pruned == prune_messages(sub.messages, SubMaxMessages)
     IN sub' = SubDone([sub EXCEPT !.iterations = @ + 1, !.requests = @ + 1,
                                   !.messages = pruned, !.sent = pruned,
                                   !.modelFailed = TRUE,
                                   !.result.error = ModelErrorText])
  /\ UNCHANGED <<direct, executed, config, configs, pc, stream, messages, iterations, result, elapsed,
                 pendingSub, pendingTools, tool_results, delegation, sent, requests,
                 modelFailed, ranFor, results, response, dispatched, finalSignal>>

\* lines 128-165 for a response that is returned
SubModelResponds(resp, now) ==
  /\ sub.pc = "loop"
  /\ InRange(sub.iterations, sub.max_iterations)
  /\ resp \in Responses(sub.stream, sub.iterations + 1)
  /\ ~resp.raises
  /\ LET pruned == prune_messages(sub.messages, SubMaxMessages)
         tool_calls == resp.tool_calls
         s1 == [sub EXCEPT !.iterations = @ + 1, !.requests = @ + 1,
                           !.messages = pruned, !.sent = pruned,
                           !.modelFailed = (@ \/ resp.stop_reason = "error")]
     IN sub' =
          IF tool_calls # <<>> /\ ~sub.stream
          THEN \* line 147: _format_tool_calls calls tc.get on a ToolCall object
               SubDone([s1 EXCEPT !.result.error = AttributeErrorText])
          ELSE IF tool_calls # <<>>
          THEN [s1 EXCEPT !.pc = "tools", !.pending = tool_calls, !.results = <<>>,
                          !.assistant = <<AssistantMsg(CollectContent(resp, sub.stream), tool_calls)>>]
          ELSE IF should_stop(resp, sub.stream, tool_calls)
          THEN SubDone([s1 EXCEPT !.result.summary = CollectContent(resp, sub.stream),
                                  !.result.success = TRUE])
          ELSE SubAfterIteration(s1, now)
  /\ UNCHANGED <<direct, executed, config, configs, pc, stream, messages, iterations, result, elapsed,
                 pendingSub, pendingTools, tool_results, delegation, sent, requests,
                 modelFailed, ranFor, results, response, dispatched, finalSignal>>

\* one turn of the for loop of SubAgent._execute_subagent_tools (lines 183-208);
\* after the last call, lines 151-165
SubExecTool(outcome, now) ==
  /\ sub.pc = "tools"
  /\ sub.pending # <<>>
  /\ LET tc == Head(sub.pending)
         rs == Append(sub.results, ToolResult(tc, execute_tool(tc.name, outcome)))
         s1 == [sub EXCEPT !.pending = Tail(@), !.results = rs, !.stats_tool_calls = @ + 1,
                           !.tool_results = Append(@, Last(rs))]
     IN /\ outcome \in ToolOutcomes(tc.name)
        /\ ExecutorReturns(outcome)
        /\ ExceptException(outcome)
        /\ sub' =
             IF Tail(sub.pending) # <<>> THEN s1
             ELSE SubAfterIteration(
                    [s1 EXCEPT !.messages = @ \o sub.assistant \o
                                 [i \in 1..Len(rs) |-> ToolMsg(rs[i].output, rs[i].tool_use_id)],
                               !.result.tool_calls = @ + Len(rs),
                               !.results = <<>>, !.assistant = <<>>], now)
  /\ UNCHANGED <<direct, executed, config, configs, pc, stream, messages, iterations, result, elapsed,
                 pendingSub, pendingTools, tool_results, delegation, sent, requests,
                 modelFailed, ranFor, results, response, dispatched, finalSignal>>

\* SubAgent._execute_subagent_tools, line 191, for a tool that never completes
SubToolHangs ==
  /\ sub.pc = "tools"
  /\ sub.pending # <<>>
  /\ \E o \in ToolOutcomes(Head(sub.pending).name) : ~ExecutorReturns(o)
  /\ sub' = [sub EXCEPT !.pc = "hung"]
  /\ UNCHANGED <<direct, executed, config, configs, pc, stream, messages, iterations, result, elapsed,
                 pendingSub, pendingTools, tool_results, delegation, sent, requests,
                 modelFailed, ranFor, results, response, dispatched, finalSignal>>

\* SubAgent._execute_subagent_tools, line 191, for a tool that raises what is
\* not an Exception: it passes sub_agent.py:193 and :170 and the caller of the
\* sub-agent (Agent._execute_subagent and chat(), or run_subagent)
SubToolEscapes ==
  /\ sub.pc = "tools"
  /\ sub.pending # <<>>
  /\ \E o \in ToolOutcomes(Head(sub.pending).name) : ~ExceptException(o)
  /\ sub' = NoSub
  /\ pc' = "raised"
  /\ UNCHANGED <<direct, executed, config, configs, stream, messages, iterations, result, elapsed,
                 pendingSub, pendingTools, tool_results, delegation, sent, requests,
                 modelFailed, ranFor, results, response, dispatched, finalSignal>>

\* range(max_iterations) is exhausted: lines 167-168
SubExhausted ==
  /\ sub.pc = "loop"
  /\ ~InRange(sub.iterations, sub.max_iterations)
  /\ sub' = SubDone(IF ~sub.result.success /\ sub.result.error = None
                    THEN [sub EXCEPT !.result.error = <<"Max iterations reached">>]
                    ELSE sub)
  /\ UNCHANGED <<direct, executed, config, configs, pc, stream, messages, iterations, result, elapsed,
                 pendingSub, pendingTools, tool_results, delegation, sent, requests,
                 modelFailed, ranFor, results, response, dispatched, finalSignal>>

\* Agent.run_subagent / SubAgentManager.execute_task_async called by the
\* application: a name that is not registered (or None) gets the default sub-agent
Delegate(agent_name, s) ==
  /\ Idle
  /\ LET cfg == IF agent_name # None /\ IsRegistered(agent_name)
                THEN get_config(agent_name) ELSE DefaultConfig
     IN sub' = StartSub(cfg, "public", None, agent_name, s)
  /\ pc' = "delegating"
  /\ NoChat
  /\ delegation' = SubResult0
  /\ UNCHANGED <<direct, config, configs>>

\* execute_task_async returns the result of SubAgent.execute to the application
DelegateReturn ==
  /\ pc = "delegating"
  /\ sub.pc = "done"
  /\ delegation' = sub.result
  /\ sub' = NoSub
  /\ pc' = "idle"
  /\ UNCHANGED <<direct, executed, config, configs, stream, messages, iterations, result, elapsed, pendingSub,
                 pendingTools, tool_results, sent, requests, modelFailed, ranFor, results,
                 response, dispatched, finalSignal>>

\* the top-level loop is between lines 151 and 249
Running == pc \in {"loop", "subagents", "in_subagent", "tools", "iter_end"}

AllOutcomes == UNION { ToolOutcomes(n) : n \in RegisteredTools \cup { <<PREFIX, "coder">> } }

Next ==
  \/ \E c \in ConfigChoices : Register(c)
  \/ \E c \in ChatInputs : Chat(c.stream, c.context)
  \/ LoopExhausted
  \/ ModelRaises
  \/ \E resp \in Responses(stream, iterations + 1), now \in Clock(SessionBudget) :
        ModelResponds(resp, now)
  \/ SubagentUnknown
  \/ SubagentStart
  \/ SubagentReturn
  \/ ToolArgsRaise
  \/ \E o \in AllOutcomes : ExecTool(o)
  \/ ToolHangs
  \/ ToolEscapes
  \/ \E now \in Clock(SessionBudget) : IterEnd(now)
  \/ SubModelRaises
  \/ \E resp \in Responses(sub.stream, sub.iterations + 1), now \in Clock(sub.timeout) :
        SubModelResponds(resp, now)
  \/ \E o \in AllOutcomes, now \in Clock(sub.timeout) : SubExecTool(o, now)
  \/ SubToolHangs
  \/ SubToolEscapes
  \/ SubExhausted
  \/ \E n \in DelegateNames, s \in BOOLEAN : Delegate(n, s)
  \/ DelegateReturn

Spec == Init /\ [][Next]_vars

\* the steps of a running loop: every model call and every tool call returns
\* (or raises), so a run that can take a step eventually takes one
LoopStep ==
  \/ LoopExhausted
  \/ ModelRaises
  \/ \E resp \in Responses(stream, iterations + 1), now \in Clock(SessionBudget) :
        ModelResponds(resp, now)
  \/ SubagentUnknown
  \/ SubagentStart
  \/ SubagentReturn
  \/ ToolArgsRaise
  \/ \E o \in AllOutcomes : ExecTool(o)
  \/ ToolHangs
  \/ ToolEscapes
  \/ \E now \in Clock(SessionBudget) : IterEnd(now)
  \/ SubModelRaises
  \/ \E resp \in Responses(sub.stream, sub.iterations + 1), now \in Clock(sub.timeout) :
        SubModelResponds(resp, now)
  \/ \E o \in AllOutcomes, now \in Clock(sub.timeout) : SubExecTool(o, now)
  \/ SubToolHangs
  \/ SubToolEscapes
  \/ SubExhausted
  \/ DelegateReturn

FairSpec == Spec /\ WF_vars(LoopStep)

\* ------------------------------------- _resolve_placeholders called directly
\* a BaseAgent with some result history, about to resolve some arguments
ResolveInit ==
  /\ LoopInit
  /\ config.max_messages = 1
  /\ resolver \in [pc : {"ready"}, args : [pattern : ArgValues], tool_results : Histories,
                    memory_store : MemoryStores, resolved : {[pattern |-> <<>>]}]
  /\ truncation = NoTruncation
  /\ caller = NoCaller
  /\ store = NoStoreUse
  /\ memory = NoMemory
  /\ rate = NoRate
  /\ emitter = NoEmitter
  /\ manager = NoManager
  /\ finder = NoFinder
  /\ msgs = NoHistory
  /\ shared = NoShared
  /\ locking = NoLocking

\* resolved = self._resolve_placeholders(args, memory_store)
Resolve ==
  /\ resolver.pc = "ready"
  /\ resolver' = [resolver EXCEPT
                    !.pc = "done",
                    !.resolved = resolve_placeholders(resolver.args, resolver.tool_results,
                                                      resolver.memory_store)]
  /\ UNCHANGED <<loopVars, truncation, caller, store, memory, rate, emitter, manager, finder, msgs, shared, locking>>

ResolveNext == Resolve

ResolveSpec == ResolveInit /\ [][ResolveNext]_vars

\* ------------------------------------- truncate_tool_result called directly
\* some text and some parameters, about to be passed to truncate_tool_result
TruncateInit ==
  /\ LoopInit
  /\ config.max_messages = 1
  /\ resolver = NoResolver
  /\ caller = NoCaller
  /\ store = NoStoreUse
  /\ memory = NoMemory
  /\ rate = NoRate
  /\ emitter = NoEmitter
  /\ manager = NoManager
  /\ finder = NoFinder
  /\ msgs = NoHistory
  /\ shared = NoShared
  /\ locking = NoLocking
  /\ truncation \in [pc : {"ready"}, result : { Text(n) : n \in 0..MaxTextLen },
                      context_window : ContextWindows, head_ratio : Ratios, tail_ratio : Ratios,
                      hard_limit : HardLimits, out : {<<>>}, again : {<<>>}]

\* out = truncate_tool_result(result, ...)
Truncate ==
  /\ truncation.pc = "ready"
  /\ truncation' = [truncation EXCEPT
        !.pc = "once",
        !.out = truncate_tool_result(truncation.result, truncation.context_window,
                  truncation.head_ratio, truncation.tail_ratio, truncation.hard_limit)]
  /\ UNCHANGED <<loopVars, resolver, caller, store, memory, rate, emitter, manager, finder, msgs, shared, locking>>

\* again = truncate_tool_result(out, ...) with the same parameters
TruncateAgain ==
  /\ truncation.pc = "once"
  /\ truncation' = [truncation EXCEPT
        !.pc = "twice",
        !.again = truncate_tool_result(truncation.out, truncation.context_window,
                    truncation.head_ratio, truncation.tail_ratio, truncation.hard_limit)]
  /\ UNCHANGED <<loopVars, resolver, caller, store, memory, rate, emitter, manager, finder, msgs, shared, locking>>

TruncateNext == Truncate \/ TruncateAgain

TruncateSpec == TruncateInit /\ [][TruncateNext]_vars

\* ------------------------------------------ SubAgent._call_model called directly
\* the model requests one sub-agent makes
MaxRequests == 2

\* a sub-agent with some allowed_tools, on a registry with some tools
CallerInit ==
  /\ LoopInit
  /\ config.max_messages = 1
  /\ resolver = NoResolver
  /\ truncation = NoTruncation
  /\ store = NoStoreUse
  /\ memory = NoMemory
  /\ rate = NoRate
  /\ emitter = NoEmitter
  /\ manager = NoManager
  /\ finder = NoFinder
  /\ msgs = NoHistory
  /\ shared = NoShared
  /\ locking = NoLocking
  /\ caller \in [pc : {"ready"}, registry : SUBSET ToolNames, allowed_tools : SUBSET AllowEntries,
                  requests : {0}, tools : {[given |-> FALSE, definitions |-> {}]},
                  called : {NoToolCall}]

\* SubAgent._call_model, lines 99-106: the request carries `tools if tools else None`
CallModel ==
  /\ caller.pc = "ready"
  /\ caller.requests < MaxRequests
  /\ LET tools == get_tool_definitions(caller.registry, caller.allowed_tools)
     IN caller' = [caller EXCEPT !.requests = @ + 1,
                                 !.tools = [given |-> tools # {}, definitions |-> tools]]
  /\ UNCHANGED <<loopVars, resolver, truncation, store, memory, rate, emitter, manager, finder, msgs, shared, locking>>

\* ToolRegistry.register, lines 442-447: a name is registered once
RegisterTool(name) ==
  /\ caller.pc = "ready"
  /\ name \notin caller.registry
  /\ caller' = [caller EXCEPT !.registry = @ \cup {name}]
  /\ UNCHANGED <<loopVars, resolver, truncation, store, memory, rate, emitter, manager, finder, msgs, shared, locking>>

\* the sub-agent's model has issued a call of the tool `name`, and
\* _execute_subagent_tools executes it
ExecuteCall(name) ==
  /\ caller.pc = "ready"
  /\ caller.requests > 0
  /\ caller' = [caller EXCEPT !.called = execute_call(caller.registry, caller.allowed_tools, name)]
  /\ UNCHANGED <<loopVars, resolver, truncation, store, memory, rate, emitter, manager, finder, msgs, shared, locking>>

CallerNext ==
  \/ CallModel
  \/ \E name \in ToolNames : RegisterTool(name)
  \/ \E name \in ToolNames \cup {"missing"} : ExecuteCall(name)

CallerSpec == CallerInit /\ [][CallerNext]_vars

\* --------------------------------------------- MemoryStore called directly
\* a new MemoryStore
StoreInit ==
  /\ LoopInit
  /\ config.max_messages = 1
  /\ resolver = NoResolver
  /\ truncation = NoTruncation
  /\ caller = NoCaller
  /\ store = [NoStoreUse EXCEPT !.pc = "ready"]
  /\ memory = NoMemory
  /\ rate = NoRate
  /\ emitter = NoEmitter
  /\ manager = NoManager
  /\ finder = NoFinder
  /\ msgs = NoHistory
  /\ shared = NoShared
  /\ locking = NoLocking

\* the keys the next set may use: key 1 or 2 when it is present or the store
\* holds no later key, and the next key that was never set
SettableKeys ==
  LET keys == DictKeys(store.st.data)
      next == 3 + Cardinality(keys \ SmallKeys)
  IN { k \in SmallKeys : k \in keys \/ keys \subseteq SmallKeys }
     \cup (IF next <= MaxKeys THEN {next} ELSE {})

\* store.set(key, value)
StoreSet(key, value) ==
  /\ store.pc = "ready"
  /\ key \in SettableKeys
  /\ key \notin SmallKeys => value = "a"
  /\ store' = [store EXCEPT !.st = store_set(@, key, value),
                            !.latest[key] = [found |-> TRUE, value |-> value],
                            !.last = [NoCall EXCEPT !.op = "set", !.key = key, !.returned = TRUE]]
  /\ UNCHANGED <<loopVars, resolver, truncation, caller, memory, rate, emitter, manager, finder, msgs, shared, locking>>

\* store.delete(key)
StoreDelete(key) ==
  /\ store.pc = "ready"
  /\ store' = [store EXCEPT !.st = store_delete(@, key).st,
                            !.latest[key] = [found |-> FALSE, value |-> ""],
                            !.last = [NoCall EXCEPT !.op = "delete", !.key = key,
                                                    !.returned = store_delete(store.st, key).returned]]
  /\ UNCHANGED <<loopVars, resolver, truncation, caller, memory, rate, emitter, manager, finder, msgs, shared, locking>>

\* store.clear()
StoreClear ==
  /\ store.pc = "ready"
  /\ store' = [store EXCEPT !.st = store_clear(@),
                            !.latest = [k \in 1..MaxKeys |-> [found |-> FALSE, value |-> ""]],
                            !.last = [NoCall EXCEPT !.op = "clear"]]
  /\ UNCHANGED <<loopVars, resolver, truncation, caller, memory, rate, emitter, manager, finder, msgs, shared, locking>>

\* store.list_keys()
StoreListKeys ==
  /\ store.pc = "ready"
  /\ store' = [store EXCEPT !.last = [NoCall EXCEPT !.op = "list",
                                                    !.keys = list_keys(store.st, ListLimit)]]
  /\ UNCHANGED <<loopVars, resolver, truncation, caller, memory, rate, emitter, manager, finder, msgs, shared, locking>>

StoreNext ==
  \/ \E key \in SettableKeys, value \in StoreValues : StoreSet(key, value)
  \/ \E key \in SmallKeys : StoreDelete(key)
  \/ StoreClear
  \/ StoreListKeys

StoreSpec == StoreInit /\ [][StoreNext]_vars

\* ------------------------------------ the memory tool called by two sessions
\* two sessions are running; no memory tool has been called
MemoryInit ==
  /\ LoopInit
  /\ config.max_messages = 1
  /\ resolver = NoResolver
  /\ truncation = NoTruncation
  /\ caller = NoCaller
  /\ store = NoStoreUse
  /\ memory = [NoMemory EXCEPT !.pc = "ready"]
  /\ rate = NoRate
  /\ emitter = NoEmitter
  /\ manager = NoManager
  /\ finder = NoFinder
  /\ msgs = NoHistory
  /\ shared = NoShared
  /\ locking = NoLocking

\* execute_tool("memory", action=..., key=..., value=...) in a session, as
\* agent.py:329 and sub_agent.py:191 call it: no _memory_store is passed, and
\* MemoryTool.execute (line 386) takes get_memory_store(), the module global
MemoryExecute(session, action, key, value) ==
  /\ memory.pc = "ready"
  /\ memory' = [memory EXCEPT
        !.created = TRUE,
        !.global = memory_effect(@, action, key, value),
        !.own[session] = memory_effect(@, action, key, value),
        !.last = [session |-> session, action |-> action, key |-> key,
                  output |-> memory_output(memory.global, action, key, value)]]
  /\ UNCHANGED <<loopVars, resolver, truncation, caller, store, rate, emitter, manager, finder, msgs, shared, locking>>

MemoryNext ==
  \E session \in Sessions, action \in MemoryReads \cup MemoryWrites,
     key \in MemoryKeys, value \in StoreValues :
       MemoryExecute(session, action, key, value)

MemorySpec == MemoryInit /\ [][MemoryNext]_vars

\* ------------------------------------ two agents' loops on one event loop
\* two agents have been constructed; no chat() is running
RateInit ==
  /\ LoopInit
  /\ config.max_messages = 1
  /\ resolver = NoResolver
  /\ truncation = NoTruncation
  /\ caller = NoCaller
  /\ store = NoStoreUse
  /\ memory = NoMemory
  /\ rate = [NoRate EXCEPT !.pc = "ready"]
  /\ emitter = NoEmitter
  /\ manager = NoManager
  /\ finder = NoFinder
  /\ msgs = NoHistory
  /\ shared = NoShared
  /\ locking = NoLocking

RateOthers == <<loopVars, resolver, truncation, caller, store, memory, emitter, manager, finder,
     msgs, shared, locking>>

\* a coroutine takes a step only when the event loop's thread runs nothing else
ThreadFree == rate.pc = "ready" /\ rate.thread = "free"

\* time passes, whatever the thread does
Tick ==
  /\ rate.pc = "ready"
  /\ rate.now < MaxTime
  /\ rate' = [rate EXCEPT !.now = @ + 1]
  /\ UNCHANGED RateOthers

\* chat() is called on agent s and reaches the top of its first iteration
StartChat(s) ==
  /\ ThreadFree
  /\ rate.agents[s].pc = "idle"
  /\ rate' = [rate EXCEPT !.agents[s].pc = "limiter",
                          !.agents[s].again = rate.agents[s].last_request_time > 0]
  /\ UNCHANGED RateOthers

\* agent.py:157-161 (base.py:113-116) up to the await of the model request: when
\* enough time has elapsed, _last_request_time is set and the request is issued;
\* otherwise time.sleep is entered, and the thread stays with it
RateLimit(s) ==
  /\ ThreadFree
  /\ rate.agents[s].pc = "limiter"
  /\ LET sleep == rate_limit_sleep(rate.now, rate.agents[s].last_request_time, RateLimitDelay)
     IN  IF sleep = 0
         THEN rate' = [rate EXCEPT !.agents[s].pc = "awaiting",
                                   !.agents[s].last_request_time = rate.now,
                                   !.agents[s].slept = FALSE]
         ELSE rate' = [rate EXCEPT !.agents[s].pc = "sleeping",
                                   !.agents[s].wake = rate.now + sleep,
                                   !.thread = s]
  /\ UNCHANGED RateOthers

\* time.sleep returns, not before the time it was asked to sleep is over;
\* _last_request_time is set (line 161) and the request is issued
Wake(s) ==
  /\ rate.pc = "ready"
  /\ rate.thread = s
  /\ rate.agents[s].pc = "sleeping"
  /\ rate.now >= rate.agents[s].wake
  /\ rate' = [rate EXCEPT !.agents[s].pc = "awaiting",
                          !.agents[s].last_request_time = rate.now,
                          !.agents[s].slept = TRUE,
                          !.thread = "free"]
  /\ UNCHANGED RateOthers

\* the model's response is consumed and its tool calls are dispatched: the loop
\* goes to its next iteration, or chat() returns
Respond(s, more) ==
  /\ ThreadFree
  /\ rate.agents[s].pc = "awaiting"
  /\ rate' = [rate EXCEPT !.agents[s].pc = IF more THEN "limiter" ELSE "idle"]
  /\ UNCHANGED RateOthers

RateNext ==
  \/ Tick
  \/ \E s \in Sessions : StartChat(s)
  \/ \E s \in Sessions : RateLimit(s)
  \/ \E s \in Sessions : Wake(s)
  \/ \E s \in Sessions, more \in BOOLEAN : Respond(s, more)

RateSpec == RateInit /\ [][RateNext]_vars

\* --------------------------------------------- EventEmitter called by a loop
\* an emitter without handlers, and a loop that is about to emit events
EmitInit ==
  /\ LoopInit
  /\ config.max_messages = 1
  /\ resolver = NoResolver
  /\ truncation = NoTruncation
  /\ caller = NoCaller
  /\ store = NoStoreUse
  /\ memory = NoMemory
  /\ rate = NoRate
  /\ emitter = [NoEmitter EXCEPT !.pc = "ready"]
  /\ manager = NoManager
  /\ finder = NoFinder
  /\ msgs = NoHistory
  /\ shared = NoShared
  /\ locking = NoLocking

EmitOthers == <<loopVars, resolver, truncation, caller, store, memory, rate, manager, finder,
     msgs, shared, locking>>

\* EventEmitter.add_handler
AddHandler(kind) ==
  /\ emitter.pc = "ready"
  /\ Len(emitter.handlers) < MaxHandlers
  /\ emitter' = [emitter EXCEPT !.handlers = Append(@, kind)]
  /\ UNCHANGED EmitOthers

\* the loop calls self.events.emit(...) (agent.py:163, 180, 325, 336); what emit
\* raises is raised in the loop
Emit(event_type) ==
  /\ emitter.pc = "ready"
  /\ emitter.loop = "running"
  /\ emitter.emits < MaxEmits
  /\ emitter' = emit(emitter, event_type)
  /\ UNCHANGED EmitOthers

EmitNext ==
  \/ \E kind \in HandlerKinds : AddHandler(kind)
  \/ \E event_type \in EventTypes : Emit(event_type)

EmitSpec == EmitInit /\ [][EmitNext]_vars

\* ---------------------------------------- SubAgentManager called directly
\* a manager after construction: nothing is registered
ManagerInit ==
  /\ LoopInit
  /\ config.max_messages = 1
  /\ resolver = NoResolver
  /\ truncation = NoTruncation
  /\ caller = NoCaller
  /\ store = NoStoreUse
  /\ memory = NoMemory
  /\ rate = NoRate
  /\ emitter = NoEmitter
  /\ manager = [NoManager EXCEPT !.pc = "ready"]
  /\ finder = NoFinder
  /\ msgs = NoHistory
  /\ shared = NoShared
  /\ locking = NoLocking

ManagerOthers == <<loopVars, resolver, truncation, caller, store, memory, rate, emitter, finder,
     msgs, shared, locking>>

\* SubAgentManager.register(c)
ManagerRegister(c) ==
  /\ manager.pc = "ready"
  /\ manager' = [manager EXCEPT
        !._configs = register(@, c),
        !.first = IF @[c.name] = None THEN [@ EXCEPT ![c.name] = c] ELSE @]
  /\ UNCHANGED ManagerOthers

\* a delegation to `name` (execute_task_async, lines 268-269) or get_config(name)
\* looks the configuration up
ManagerLookup(name) ==
  /\ manager.pc = "ready"
  /\ manager' = [manager EXCEPT
        !.looked = [name |-> name, config |-> manager_get_config(manager._configs, name)]]
  /\ UNCHANGED ManagerOthers

ManagerNext ==
  \/ \E c \in ManagerConfigs : ManagerRegister(c)
  \/ \E name \in ManagerNames : ManagerLookup(name)

ManagerSpec == ManagerInit /\ [][ManagerNext]_vars

\* ------------------------- _find_tool_result_by_description called directly
\* an agent without tool results
FinderInit ==
  /\ LoopInit
  /\ config.max_messages = 1
  /\ resolver = NoResolver
  /\ truncation = NoTruncation
  /\ caller = NoCaller
  /\ store = NoStoreUse
  /\ memory = NoMemory
  /\ rate = NoRate
  /\ emitter = NoEmitter
  /\ manager = NoManager
  /\ finder = [NoFinder EXCEPT !.pc = "ready"]
  /\ msgs = NoHistory
  /\ shared = NoShared
  /\ locking = NoLocking

FinderOthers ==
  <<loopVars, resolver, truncation, caller, store, memory, rate, emitter, manager, msgs, shared, locking>>

\* a tool call has been executed: its result is appended to _tool_results
\* (sub_agent.py:207)
FinderToolResult(tool_name, output) ==
  /\ finder.pc = "ready"
  /\ Len(finder._tool_results) < MaxHistory
  /\ finder' = [finder EXCEPT
        !._tool_results = Append(@, [tool_name |-> tool_name, output |-> output])]
  /\ UNCHANGED FinderOthers

\* _find_tool_result_by_description(description)
Find(description) ==
  /\ finder.pc = "ready"
  /\ finder' = [finder EXCEPT
        !.description = description,
        !.returned = find_by_description(description, finder._tool_results)]
  /\ UNCHANGED FinderOthers

FinderNext ==
  \/ \E tool_name \in {"Grep", "read"}, output \in Outputs : FinderToolResult(tool_name, output)
  \/ \E description \in Descriptions : Find(description)

FinderSpec == FinderInit /\ [][FinderNext]_vars

\* --------------------------------------- chat() and get_message_history()
\* an agent after construction, with some ModelConfig.max_messages
HistoryInit ==
  /\ LoopInit
  /\ config.max_messages = 1
  /\ resolver = NoResolver
  /\ truncation = NoTruncation
  /\ caller = NoCaller
  /\ store = NoStoreUse
  /\ memory = NoMemory
  /\ rate = NoRate
  /\ emitter = NoEmitter
  /\ manager = NoManager
  /\ finder = NoFinder
  /\ \E max_msgs \in {1, MaxMessagesBound, DefaultMaxMessages} :
       msgs = [NoHistory EXCEPT !.pc = "idle", !.max_messages = max_msgs]
  /\ shared = NoShared
  /\ locking = NoLocking

HistoryOthers ==
  <<loopVars, resolver, truncation, caller, store, memory, rate, emitter, manager, finder, shared, locking>>

\* Agent.chat, lines 117-121: _message_history is system and user message,
\* `messages` a copy of it (behind the context), passed to _run_agent_loop
HistoryChat(context) ==
  /\ msgs.pc = "idle"
  /\ msgs' = [msgs EXCEPT
        !.pc = "loop", !._message_history = <<SystemMsg, UserMsg(<<"hi">>)>>,
        !.chat = context \o <<SystemMsg, UserMsg(<<"hi">>)>>,
        !.loop = context \o <<SystemMsg, UserMsg(<<"hi">>)>>,
        !.aliased = TRUE, !.iterations = 0, !.appended = <<>>]
  /\ UNCHANGED HistoryOthers

\* one iteration of _run_agent_loop: `messages = self._prune_messages(messages)`
\* (line 166) rebinds the loop's name, then the assistant message (line 187) and
\* the tool messages of the batch (line 227) are appended to the list it denotes;
\* a response without tool calls ends the loop
HistoryIteration(batch) ==
  /\ msgs.pc = "loop"
  /\ msgs.iterations < MaxTurns
  /\ LET n == msgs.iterations + 1
         same == msgs.aliased /\ prune_returns_argument(msgs.loop, msgs.max_messages)
         new == <<AssistantMsg(<<TurnNames[n]>>, [i \in 1..batch |-> <<n, i>>])>>
                \o [i \in 1..batch |-> ToolMsg(<<"match.py:1:foo">>, <<n, i>>)]
         list == prune_messages(msgs.loop, msgs.max_messages) \o new
     IN  msgs' = [msgs EXCEPT
            !.iterations = n,
            !.aliased = same,
            !.loop = list,
            !.chat = IF same THEN list ELSE @,
            !.appended = @ \o new,
            !.pc = IF batch = 0 THEN "ended" ELSE "loop"]
  /\ UNCHANGED HistoryOthers

\* the loop returns (after a final answer, or out of iterations), and chat()
\* stores its own list: `self._message_history = messages` (line 138)
HistoryReturn ==
  /\ \/ msgs.pc = "ended"
     \/ msgs.pc = "loop" /\ msgs.iterations = MaxTurns
  /\ msgs' = [msgs EXCEPT !.pc = "returned", !._message_history = msgs.chat]
  /\ UNCHANGED HistoryOthers

HistoryNext ==
  \/ \E context \in {<<>>, <<UserMsg(<<"earlier">>)>>} : HistoryChat(context)
  \/ \E batch \in 0..MaxBatch : HistoryIteration(batch)
  \/ HistoryReturn

HistorySpec == HistoryInit /\ [][HistoryNext]_vars

\* ------------------------------ two sessions on agents sharing an emitter
\* two agents constructed with the same EventEmitter; no chat() has started
SharedInit ==
  /\ LoopInit
  /\ config.max_messages = 1
  /\ resolver = NoResolver
  /\ truncation = NoTruncation
  /\ caller = NoCaller
  /\ store = NoStoreUse
  /\ memory = NoMemory
  /\ rate = NoRate
  /\ emitter = NoEmitter
  /\ manager = NoManager
  /\ finder = NoFinder
  /\ msgs = NoHistory
  /\ shared = [NoShared EXCEPT !.pc = [s \in Sessions |-> "idle"]]
  /\ locking = NoLocking

SharedOthers ==
  <<loopVars, resolver, truncation, caller, store, memory, rate, emitter, manager, finder,
    msgs, locking>>

\* Agent.chat(session_id=s) up to the first `await self.model_client.chat`:
\* set_session_id (line 126), USER_MESSAGE (129), MODEL_START (163)
SharedChat(s) ==
  /\ shared.pc[s] = "idle"
  /\ shared' = [emit_stamped(set_session_id(shared, s), s, <<"user_message", "model_start">>)
                  EXCEPT !.pc[s] = "model", !.turns[s] = 1]
  /\ UNCHANGED SharedOthers

\* the loop's next iteration, or its end when the iterations are used up
SharedContinue(em, s) ==
  IF em.turns[s] < MaxSessionTurns
  THEN [emit_stamped(em, s, <<"model_start">>) EXCEPT !.pc[s] = "model", !.turns[s] = @ + 1]
  ELSE [em EXCEPT !.pc[s] = "done"]

\* the model call of session s returns: MODEL_STOP (agent.py:180, 185); a final
\* answer ends the run, tool calls are executed (TOOL_CALL_START, TOOL_RESULT,
\* lines 325, 336) and the loop goes on, a sub-agent call emits SUBAGENT_START
\* (line 290) and SubAgent.execute sets the session id again
\* (sub_agent.py:114-115) and emits MODEL_START (line 104) before it awaits
SharedModelReturns(s, next) ==
  /\ shared.pc[s] = "model"
  /\ LET stopped == emit_stamped(shared, s, <<"model_stop">>)
     IN  shared' =
           IF next = "final" THEN [stopped EXCEPT !.pc[s] = "done"]
           ELSE IF next = "tools"
           THEN SharedContinue(emit_stamped(stopped, s, <<"tool_call_start", "tool_result">>), s)
           ELSE [emit_stamped(
                   set_session_id(emit_stamped(stopped, s, <<"subagent_start">>), s),
                   s, <<"model_start">>)
                   EXCEPT !.pc[s] = "sub_model"]
  /\ UNCHANGED SharedOthers

\* the sub-agent's model call returns a final answer: MODEL_STOP
\* (sub_agent.py:106), then SUBAGENT_STOP (agent.py:300), and the loop goes on
SharedSubReturns(s) ==
  /\ shared.pc[s] = "sub_model"
  /\ shared' = SharedContinue(emit_stamped(shared, s, <<"model_stop", "subagent_stop">>), s)
  /\ UNCHANGED SharedOthers

SharedNext ==
  \/ \E s \in Sessions : SharedChat(s)
  \/ \E s \in Sessions, next \in {"final", "tools", "subagent"} : SharedModelReturns(s, next)
  \/ \E s \in Sessions : SharedSubReturns(s)

SharedSpec == SharedInit /\ [][SharedNext]_vars

\* --------------------------------------- threads calling one EventEmitter
\* an emitter after construction, on whose queue some events were put before
LockInit ==
  /\ LoopInit
  /\ config.max_messages = 1
  /\ resolver = NoResolver
  /\ truncation = NoTruncation
  /\ caller = NoCaller
  /\ store = NoStoreUse
  /\ memory = NoMemory
  /\ rate = NoRate
  /\ emitter = NoEmitter
  /\ manager = NoManager
  /\ finder = NoFinder
  /\ msgs = NoHistory
  /\ shared = NoShared
  /\ \E queued \in {0, MaxQueueSize} :
       locking = [NoLocking EXCEPT !.queued = queued, !.pc = [t \in LockThreads |-> "idle"]]

LockOthers ==
  <<loopVars, resolver, truncation, caller, store, memory, rate, emitter, manager, finder,
    msgs, shared>>

\* the call that thread t is in, and the thread after that call has returned
TopFrame(t) == Last(locking.stack[t])

Returned(lk, t) ==
  LET rest == SubSeq(lk.stack[t], 1, Len(lk.stack[t]) - 1)
  IN  IF rest = <<>>
      THEN [lk EXCEPT !.stack[t] = <<>>, !.pc[t] = "idle"]
      ELSE [lk EXCEPT !.pc[t] = "dispatching",
              !.stack[t] = [rest EXCEPT ![Len(rest)].i = @ + 1]]

\* thread t calls emit, add_handler or remove_handler and reaches `with self._lock`
LockCall(t, call) ==
  /\ locking.pc[t] = "idle"
  /\ locking.calls[t] < MaxCalls
  /\ call.method = "add_handler" => Len(locking._handlers) < MaxLockHandlers
  /\ locking' = [locking EXCEPT !.pc[t] = "waiting", !.calls[t] = @ + 1,
                    !.stack[t] = <<[call |-> call, i |-> 0]>>]
  /\ UNCHANGED LockOthers

\* `with self._lock:` (events.py:111, 126, 130): a threading.Lock is acquired
\* only while nobody holds it, the thread itself included. emit puts the event
\* on the queue and starts _dispatch; add_handler and remove_handler change
\* _handlers and leave the `with` at once
LockAcquire(t) ==
  /\ locking.pc[t] = "waiting"
  /\ locking._lock = "free"
  /\ locking' =
       IF TopFrame(t).call.method = "emit"
       THEN [locking EXCEPT !._lock = t, !.queued = put_nowait(@), !.pc[t] = "dispatching",
               !.stack[t] = [@ EXCEPT ![Len(@)].i = 1]]
       ELSE Returned([locking EXCEPT !._handlers = under_lock(@, TopFrame(t).call)], t)
  /\ UNCHANGED LockOthers

\* _dispatch hands the event to the next handler (events.py:119-121): one that
\* returns, or one that calls the emitter, on this thread, while emit holds _lock
LockHandle(t) ==
  /\ locking.pc[t] = "dispatching"
  /\ TopFrame(t).i <= Len(locking._handlers)
  /\ LET kind == locking._handlers[TopFrame(t).i]
     IN  locking' =
           IF kind = "returns"
           THEN [locking EXCEPT !.stack[t] = [@ EXCEPT ![Len(@)].i = @ + 1]]
           ELSE [locking EXCEPT !.pc[t] = "waiting",
                   !.stack[t] = Append(@, [call |-> call_of(kind), i |-> 0])]
  /\ UNCHANGED LockOthers

\* _dispatch is through: the `with` ends, the lock is released, emit returns True
LockReturn(t) ==
  /\ locking.pc[t] = "dispatching"
  /\ TopFrame(t).i > Len(locking._handlers)
  /\ locking' = Returned([locking EXCEPT !._lock = "free"], t)
  /\ UNCHANGED LockOthers

\* the steps a thread takes by itself once it is inside a call
LockStep(t) == LockAcquire(t) \/ LockHandle(t) \/ LockReturn(t)

LockNext ==
  \/ \E t \in LockThreads, call \in TopCalls : LockCall(t, call)
  \/ \E t \in LockThreads : LockAcquire(t)
  \/ \E t \in LockThreads : LockHandle(t)
  \/ \E t \in LockThreads : LockReturn(t)

LockSpec == LockInit /\ [][LockNext]_vars

\* every thread that can take a step is scheduled
LockFairSpec == LockSpec /\ \A t \in LockThreads : WF_vars(LockStep(t))

\* ------------------------------------------------------------------ C1
\* a run of the top-level loop, or of a sub-agent, has not returned yet
SubRunning == sub.pc \in {"loop", "tools"}

\* a tool call of the run does not return (the proviso of C1 fails)
Hung == pc = "hung" \/ sub.pc = "hung"

IterationCap ==
  /\ iterations <= config.max_iterations
  /\ requests <= config.max_iterations
  /\ (pc = "done" => result.iterations = requests /\ result.iterations <= config.max_iterations)
  /\ sub.iterations <= sub.max_iterations
  /\ sub.requests <= sub.max_iterations

C2_StopEndsRunWithSuccess ==
  [][ ( /\ requests' = requests + 1
        /\ ~response'.raises
        /\ response'.tool_calls = <<>>
        /\ (stream' \/ response'.stop_reason = "stop") )
      => ( /\ pc' = "done"
           /\ result'.success
           /\ result'.content = (IF stream' THEN Flatten(response'.chunks) ELSE response'.content)
           /\ result'.iterations = requests' ) ]_vars

\* a stop received as the second response of a run that does not stream
C2_Witness ==
  /\ pc = "done"
  /\ ~stream
  /\ result.success
  /\ result.iterations = 2
  /\ response.stop_reason = "stop"
  /\ result.content = <<"hello">>

\* ------------------------------------------------------------------ C3
\* C3: every ordinary tool call dispatched in one iteration is answered, in the
\* history sent with the next model request, by a tool message with the
\* dispatcher's output and the call's id; and a run that ends with success lists
\* exactly the dispatched ordinary tools, in dispatch order
C3_ToolMessageReachesNextRequest ==
  /\ \A i \in 1..Len(tool_results) :
       (requests = tool_results[i].tool_use_id[1] + 1) =>
          \E j \in 1..Len(sent) :
             /\ sent[j].role = "tool"
             /\ sent[j].content = tool_results[i].output
             /\ sent[j].tool_call_id = tool_results[i].tool_use_id
  /\ (pc = "done" /\ result.success => result.tool_calls = dispatched)

\* ------------------------------------------------------------------ C4
\* C4: once a dispatched tool has raised the final-answer signal with message M
\* and its batch has been executed, the run has ended with success and content M
C4_FinalAnswerEndsRun ==
  (finalSignal # None /\ pc # "tools") =>
     (pc = "done" /\ result.success /\ result.content = finalSignal /\ pendingTools = <<>>)

\* ------------------------------------------------------------------ C5
\* C5: a run of the top-level loop that returns without success (and was not
\* cut short by the session timeout) reports iterations = max_iterations and
\* the error "max iterations reached"
C5_MaxIterationsError ==
  (pc = "done" /\ ~result.success /\ elapsed <= SessionBudget) =>
     (result.iterations = config.max_iterations /\ result.error = <<"max iterations reached">>)

\* ------------------------------------------------------------------ C6
\* C6: a tool call subagent_X for an X that is not registered starts no nested
\* loop, its delegation result is {success=false, error="Unknown subagent: X"},
\* it is answered by a tool message with its id, and the loop goes on
C6_UnknownSubagentFails ==
  \A k \in 1..Len(response.tool_calls) :
     LET tc == response.tool_calls[k]
     IN (Running /\ is_subagent_call(tc) /\ ~IsRegistered(Tail(tc.name))) =>
          /\ tc.id \notin ranFor
          /\ \A j \in 1..Len(result.subagent_results) :
               LET e == result.subagent_results[j]
               IN e.tool_use_id = tc.id =>
                    /\ ~e.result.success
                    /\ e.result.error = <<"Unknown subagent: ">> \o Tail(tc.name)
                    /\ \E m \in 1..Len(messages) :
                         messages[m].role = "tool" /\ messages[m].tool_call_id = tc.id

\* ------------------------------------------------------------------ C7
\* C7: a public delegation to a name that is not registered makes no model
\* request, executes no tool and returns a failure
C7_UnknownDelegateFailsAtOnce ==
  (sub.caller = "public" /\ sub.agent_name # None /\ ~IsRegistered(sub.agent_name)) =>
     /\ sub.requests = 0
     /\ sub.stats_tool_calls = 0
     /\ (sub.pc = "done" => ~sub.result.success /\ sub.result.error # None)

\* ------------------------------------------------------------------ C8
\* C8: in every result returned by chat() and by SubAgent.execute the error is
\* populated exactly when success is false
C8_ErrorIffFailure ==
  /\ (pc = "done" => ((result.error # None) <=> ~result.success))
  /\ (sub.pc = "done" => ((sub.result.error # None) <=> ~sub.result.success))

\* ------------------------------------------------------------------ C9
\* C9: once the Model Client has failed (raised, or returned stop_reason=error)
\* the run has ended with a returned result, success=false and an error
\* recorded: no exception has left chat() and no further request follows
C9_ModelFailureEndsRun ==
  /\ (modelFailed => (pc = "done" /\ ~result.success /\ result.error # None))
  /\ (sub.modelFailed => (sub.pc = "done" /\ ~sub.result.success /\ sub.result.error # None))

\* ----------------------------------------------------------------- C10
\* every tool message of a history answers a call of the nearest assistant
\* message before it
WellPaired(history) ==
  \A i \in 1..Len(history) :
     history[i].role = "tool" =>
        \E j \in 1..(i - 1) :
           /\ history[j].role = "assistant"
           /\ \A k \in (j + 1)..(i - 1) : history[k].role # "assistant"
           /\ \E c \in 1..Len(history[j].tool_calls) :
                history[j].tool_calls[c].id = history[i].tool_call_id

\* C10: in every history passed to the Model Client, each tool message answers a
\* tool call of the nearest preceding assistant message: pruning never keeps a
\* tool message without its assistant message
C10_PruningKeepsPairs == WellPaired(sent) /\ WellPaired(sub.sent)

\* ----------------------------------------------------------------- C11
\* C11: every history sent to the Model Client by a chat() run holds the
\* system message of the session
C11_PruningKeepsSystemMessage ==
  (requests > 0) => \E i \in 1..Len(sent) : sent[i] = SystemMsg

\* ----------------------------------------------------------------- C12
\* the tool messages of one request's calls stand in the order of the calls
InCallOrder(history) ==
  \A i, j \in 1..Len(history) :
     (/\ i < j
      /\ history[i].role = "tool"
      /\ history[j].role = "tool"
      /\ history[i].tool_call_id[1] = history[j].tool_call_id[1])
     => history[i].tool_call_id[2] < history[j].tool_call_id[2]

\* C12: in the history of a run, the tool messages answering the calls of one
\* assistant message stand in the order in which the calls were issued, also
\* for a batch that mixes sub-agent calls with ordinary tool calls
C12_ToolMessagesInCallOrder == InCallOrder(messages) /\ InCallOrder(sub.messages)

\* ----------------------------------------------------------------- C13
\* C13: the calls of one response are executed one at a time and in the order
\* of the response: a call is started only after every call issued before it
\* in the same response has been executed
C13_ExecutedInCallOrder ==
  \A j \in 1..Len(executed) :
     \A k \in 1..Len(response.tool_calls) :
        (/\ response.tool_calls[k].id[1] = executed[j].id[1]
         /\ response.tool_calls[k].id[2] < executed[j].id[2])
        => \E i \in 1..(j - 1) : executed[i].id = response.tool_calls[k].id

\* ----------------------------------------------------------------- C14
\* C14: a tool call whose arguments are not valid JSON is executed with the
\* arguments {raw: <text>}, and no exception leaves the loop because of it
C14_MalformedArgumentsTolerated ==
  /\ ~(pc = "raised" /\ pendingTools # <<>> /\ ~JsonLoads(Head(pendingTools).arguments))
  /\ \A i \in 1..Len(executed) :
        ~JsonLoads(executed[i].arguments) =>
           executed[i].input = <<[key |-> "raw", value |-> <<executed[i].arguments>>]>>

\* ----------------------------------------------------------------- C15
\* the tool is not registered, or its execute raises an exception of one of
\* the kinds
ToolFails(name, kinds) ==
  name \notin RegisteredTools \/ \E o \in ToolOutcomes(name) : o.kind \in kinds

\* every result recorded for a failing tool is an "Error:" text with
\* success = false
FailuresRecorded(kinds) ==
  \A r \in { results[i] : i \in 1..Len(results) }
           \cup { tool_results[i] : i \in 1..Len(tool_results) }
           \cup { sub.tool_results[i] : i \in 1..Len(sub.tool_results) } :
     ToolFails(r.tool_name, kinds) => StartsWithError(r.output) /\ ~r.success

\* the step that executes the call of a failing tool records its result and
\* goes on with the next call or with the rest of the iteration
FailureContinues(kinds) ==
  /\ ( /\ pc = "tools" /\ pendingTools # <<>>
       /\ JsonLoads(Head(pendingTools).arguments)
       /\ ToolFails(Head(pendingTools).name, kinds)
       /\ (pc' # pc \/ pendingTools' # pendingTools) )
     => ( /\ pc' \in {"tools", "iter_end"}
          /\ pendingTools' = Tail(pendingTools)
          /\ Len(results') = Len(results) + 1 \/ Len(tool_results') = Len(results) + 1 )
  /\ ( /\ sub.pc = "tools" /\ sub.pending # <<>>
       /\ ToolFails(Head(sub.pending).name, kinds)
       /\ sub' # sub )
     => ( /\ sub'.pc \in {"tools", "loop", "done"}
          /\ pc' = pc
          /\ Len(sub'.tool_results) = Len(sub.tool_results) + 1 )

C16_TimeoutNeverHangs == ~Hung

\* ----------------------------------------------------------------- C17
\* the outputs of the ordinary tool calls executed before position j
RECURSIVE EarlierResults(_)
EarlierResults(j) ==
  IF j <= 1 THEN <<>>
  ELSE (EarlierResults(j - 1)) \o
       (IF is_subagent_call(executed[j - 1]) THEN <<>>
        ELSE <<[tool_name |-> Head(executed[j - 1].name), output |-> executed[j - 1].output]>>)

\* C17: every ordinary tool is executed with its string arguments resolved
\* against the results of the calls dispatched before it in the session
C17_ArgumentsResolvedBeforeDispatch ==
  \A j \in 1..Len(executed) :
     ~is_subagent_call(executed[j]) =>
        executed[j].input =
          [n \in 1..Len(json_loads(executed[j].arguments)) |->
             [key |-> json_loads(executed[j].arguments)[n].key,
              value |-> resolve_value(json_loads(executed[j].arguments)[n].value,
                                      EarlierResults(j), NoStore)]]

\* the limit and the lengths of the call of truncate_tool_result under way
TruncLimit == max_length(truncation.context_window, truncation.hard_limit)
TruncLengths ==
  head_tail(Len(truncation.result), TruncLimit, truncation.head_ratio, truncation.tail_ratio)
OverLimit == truncation.pc # "ready" /\ Len(truncation.result) > TruncLimit

\* ----------------------------------------------------------------- C21
\* C21: for every text longer than the effective limit, every hard_limit >= 1,
\* every pair of ratios and every context budget, the output of
\* truncate_tool_result has at most hard_limit characters
C21_OutputWithinHardLimit ==
  OverLimit => Len(truncation.out) <= truncation.hard_limit

\* ----------------------------------------------------------------- C22
\* C22: for every text over the limit the output is
\* text[:head_len] + marker + text[-tail_len:], the marker stating the length of
\* the text; head_len and tail_len are floor(limit * head_ratio) and
\* floor(limit * tail_ratio), and smaller only when these do not fit with the
\* marker; no tail characters are kept when tail_len is zero
C22_HeadMarkerTail ==
  OverLimit =>
    LET text == truncation.result
        limit == TruncLimit
        head_len == TruncLengths.head
        tail_len == TruncLengths.tail
        head_full == (limit * truncation.head_ratio.num) \div truncation.head_ratio.den
        tail_full == (limit * truncation.tail_ratio.num) \div truncation.tail_ratio.den
        fits == head_full + tail_full + Len(Marker(Len(text))) <= limit
    IN /\ 0 <= head_len /\ head_len <= head_full
       /\ 0 <= tail_len /\ tail_len <= tail_full
       /\ fits => head_len = head_full /\ tail_len = tail_full
       /\ truncation.out =
            SubSeq(text, 1, head_len) \o Marker(Len(text))
            \o SubSeq(text, Len(text) - tail_len + 1, Len(text))

\* ----------------------------------------------------------------- C23
\* C23: truncate_tool_result returns a text of at most min(hard_limit, context
\* budget) characters unchanged, and truncating its output again with the same
\* parameters changes nothing
C23_UnchangedAndIdempotent ==
  /\ (truncation.pc # "ready" /\ Len(truncation.result) <= TruncLimit)
       => truncation.out = truncation.result
  /\ truncation.pc = "twice" => truncation.again = truncation.out

\* ----------------------------------------------------------------- C24
\* C24: the tool schema a sub-agent sends with a model request holds exactly
\* the tools registered at that time whose names are in its allowed_tools, or
\* all of them when allowed_tools holds "*"; it holds no other tool
C24_SchemaIsAllowList ==
  [][ caller'.requests = caller.requests + 1 =>
        LET names == { d.name : d \in caller'.tools.definitions }
        IN /\ names = IF "*" \in caller.allowed_tools THEN caller.registry
                      ELSE caller.registry \cap caller.allowed_tools
           /\ \A d \in caller'.tools.definitions : d.type = "function"
           /\ caller'.tools.given <=> names # {} ]_vars

\* a second request, made after tool "slow" was registered, carries "grep" only:
\* "finish" is registered but not allowed, "missing" is allowed but not registered
C24_Witness ==
  /\ caller.requests = 2
  /\ caller.registry = {"grep", "finish", "slow"}
  /\ caller.allowed_tools = {"grep", "missing"}
  /\ caller.tools = [given |-> TRUE, definitions |-> {to_format("grep")}]

\* ----------------------------------------------------------------- C25
\* C25: what a session reads through the memory tool (get, search, list) is
\* what its own set, delete and clear calls have left: a value stored by
\* another session is not observable, and the writes of another session change
\* nothing of what it reads
C25_MemoryIsSessionScoped ==
  memory.last.action \in MemoryReads =>
    memory.last.output =
      memory_output(memory.own[memory.last.session], memory.last.action, memory.last.key, "")

\* ----------------------------------------------------------------- C26
\* get, delete and the two maps of a MemoryStore: get(k) is the value last set
\* for k and not deleted or cleared since, delete(k) returns True exactly when
\* k was present, and the two maps have the same keys
StoreGetDeleteKeys ==
  /\ [](\A k \in 1..MaxKeys : store_get(store.st, k) = store.latest[k])
  /\ [](DictKeys(store.st.data) = DictKeys(store.st.metadata))
  /\ [][ (store'.last.op = "delete" /\ store' # store)
           => store'.last.returned = store_get(store.st, store'.last.key).found ]_vars

\* the keys for which get is not None
PresentKeys == { k \in 1..MaxKeys : store_get(store.st, k).found }
ListedKeys == { store.last.keys[i] : i \in 1..Len(store.last.keys) }

IssuesRequest(s) ==
  rate.agents[s].pc # "awaiting" /\ rate'.agents[s].pc = "awaiting"

\* C27: an agent never issues a model request earlier than its last_request_time
\* plus rate_limit_delay, and the time it records for the request is at least
\* rate_limit_delay after the one it recorded for the request before: in every
\* iteration, and across the chat() calls of the agent.
C27_RequestsKeepTheDelay ==
  [][\A s \in Sessions :
       IssuesRequest(s) =>
         /\ rate'.now >= rate.agents[s].last_request_time + RateLimitDelay
         /\ rate'.agents[s].last_request_time
              >= rate.agents[s].last_request_time + RateLimitDelay]_vars

\* an agent has issued a request in a later chat(), after the limiter slept
C27_Witness ==
  \E s \in Sessions :
    /\ rate.agents[s].pc = "awaiting"
    /\ rate.agents[s].again
    /\ rate.agents[s].slept

\* ----------------------------------------------------------------- C28
\* C28: while one session waits out its rate-limit gap, another session on the
\* same event loop that has a step to take (its own limiter and model request,
\* the consumption of a response) can take it.
C28_DelayIsNonBlocking ==
  \A s, t \in Sessions :
    (s # t /\ rate.agents[s].pc = "sleeping") =>
      /\ rate.agents[t].pc = "limiter" => ENABLED RateLimit(t)
      /\ rate.agents[t].pc = "awaiting" => ENABLED Respond(t, TRUE)

\* ----------------------------------------------------------------- C29
\* the same handlers, none of which fails
Unfailing(handlers) == [i \in 1..Len(handlers) |-> "returns"]

\* C29: whatever the registered handlers raise, emit returns (True) and raises
\* nothing, every handler has been handed the event, in registration order, and
\* the emitter and the loop that called emit are as they would be had no handler
\* failed.
C29_DeliveryIsBestEffort ==
  emitter.last.type # "none" =>
    /\ emitter.last.returned
    /\ emitter.last.raised = "none"
    /\ emitter.last.received = [i \in 1..Len(emitter.last.received) |-> i]
    /\ emitter.loop = "running"
    /\ \A event_type \in EventTypes :
         (emitter.loop = "running" /\ emitter.emits < MaxEmits) =>
           /\ Len(emit(emitter, event_type).last.received) = Len(emitter.handlers)
           /\ emit(emitter, event_type)
                = [emit([emitter EXCEPT !.handlers = Unfailing(@)], event_type)
                     EXCEPT !.handlers = emitter.handlers]

\* three handlers have been handed an event, the first of which raises an
\* Exception and the second a SystemExit
C29_Witness ==
  /\ emitter.last.type # "none"
  /\ Len(emitter.last.received) = 3
  /\ Len(emitter.handlers) = 3
  /\ emitter.handlers[1] = "raises"
  /\ emitter.handlers[2] = "exits"
  /\ emitter.emits = MaxEmits

\* ----------------------------------------------------------------- C30
\* C30: a run of the top-level loop, or of a sub-agent's loop, that was ended by
\* the whole-session timeout check at the end of an iteration (with or without
\* tool calls) has ended as a failure whose recorded reason is "timeout".
C30_SessionTimeoutIsFailure ==
  /\ (pc = "done" /\ elapsed > SessionBudget) =>
        (~result.success /\ result.error = <<"timeout">>)
  /\ (sub # NoSub /\ sub.pc = "done" /\ sub.elapsed > sub.timeout) =>
        (~sub.result.success /\ sub.result.error = <<"timeout">>)

\* ----------------------------------------------------------------- C31
\* C31: a sub-agent's loop handles a response as the top-level loop does: a
\* response with tool calls is dispatched (it does not fail the run), and every
\* assistant response is appended to the history, so that a run that ended with
\* success has the final assistant message, with the summary, as its last message.
C31_SubAgentRunsSameMachine ==
  sub.pc = "done" =>
    /\ sub.result.error # AttributeErrorText
    /\ sub.result.success =>
         /\ Last(sub.messages).role = "assistant"
         /\ Last(sub.messages).content = sub.result.summary

\* ----------------------------------------------------------------- C32
\* C32: a call of a tool whose name is not in the agent's allowed_tools (the
\* wildcard not being granted) does not run the tool's execute, and yields an
\* error result.
C32_OnlyAllowedToolsRun ==
  (/\ caller.called.name # "none"
   /\ caller.called.name \notin caller.allowed_tools
   /\ "*" \notin caller.allowed_tools)
     => (~caller.called.ran /\ caller.called.refused)

\* ----------------------------------------------------------------- C33
\* C33: a tool call subagent_<name> that a sub-agent's own model issues, for a
\* registered <name>, is dispatched as a delegation, as the top-level loop
\* dispatches it: it is not handed to the tool registry, which knows no such tool.
C33_SubAgentsDelegate ==
  \A i \in 1..Len(sub.tool_results) :
    LET r == sub.tool_results[i]
    IN  (is_subagent_call([name |-> r.tool_name]) /\ IsRegistered(ReplacePrefix(r.tool_name)))
          => r.output # <<"Error:", " Unknown tool: ">> \o r.tool_name

\* ----------------------------------------------------------------- C34
\* C34: the configuration looked up for a name is the one the name was first
\* registered with, whatever was registered afterwards.
C34_ConfigIsImmutable ==
  [][(manager'.looked # manager.looked /\ manager.first[manager'.looked.name] # None)
       => manager'.looked.config = manager.first[manager'.looked.name]]_vars

\* ----------------------------------------------------------------- C35
\* the latest result whose tool name occurs in the description, case ignored
\* (any latest result for a description with the marker of "the most recent")
MatchedEntry ==
  LET hits == { i \in 1..Len(finder._tool_results) :
                  \/ finder.description.recent
                  \/ Lower(finder._tool_results[i].tool_name) \in finder.description.names }
  IN  IF hits = {} THEN 0 ELSE CHOOSE i \in hits : \A j \in hits : j <= i

\* what was returned is what the claim prescribes for the matched entry
ReturnedAsDescribed ==
  (finder.returned.found /\ MatchedEntry # 0) =>
    LET output == finder._tool_results[MatchedEntry].output
        plain == \A i \in 1..Len(output) :
                   HasColon(output[i]) /\ output[i][1] # "" /\ ~StartsWithErrorWord(output[i][1])
        n == IF Len(output) < MaxPaths THEN Len(output) ELSE MaxPaths
    IN  /\ (Len(output) >= 2 /\ plain)
             => finder.returned.output = [i \in 1..n |-> <<output[i][1]>>]
        /\ (Len(output) = 1 \/ \E i \in 1..Len(output) : ~HasColon(output[i]))
             => finder.returned.output = output

\* C35: for a description that matches a result, the colon prefixes of (up to
\* the first 5 of) its lines are returned only when the output has several
\* lines and every line has a colon; for an output of one line, or with some
\* line without a colon, the raw output is returned.
C35_NaturalExtractsOnlyColonLines ==
  [][finder'._tool_results = finder._tool_results => ReturnedAsDescribed']_vars

\* ----------------------------------------------------------------- C36
\* C36: a response with tool calls is handled in the same way whether it was
\* streamed (its calls are raw mappings) or not (its calls are objects): the
\* assistant message is appended with the calls, and no exception leaves the loop
\* for it.
C36_BothCallRepresentationsHandled ==
  (pc \notin {"idle", "loop"} /\ response.tool_calls # <<>>
     /\ \E i \in 1..Len(messages) : messages[i].role = "assistant")
    => LET last == CHOOSE i \in 1..Len(messages) :
                     /\ messages[i].role = "assistant"
                     /\ \A j \in (i + 1)..Len(messages) : messages[j].role # "assistant"
       IN  /\ messages[last].tool_calls = response.tool_calls
           /\ (pc = "raised" => ~stream)

\* ----------------------------------------------------------------- C37
\* C37: after chat() has returned, get_message_history() is the history the
\* loop ended with; it ends with the last message the run appended, and holds
\* the last assistant message of the run.
C37_HistoryIsWhatTheLoopEndedWith ==
  msgs.pc = "returned" =>
    /\ msgs._message_history = msgs.loop
    /\ Last(msgs._message_history) = Last(msgs.appended)
    /\ \E i \in 1..Len(msgs._message_history) :
         /\ msgs._message_history[i].role = "assistant"
         /\ msgs._message_history[i].content = <<TurnNames[msgs.iterations]>>

\* ----------------------------------------------------------------- C18
\* C18: with a result history of N >= 1 entries, an argument that contains
\* ${tool_result.last} resolves to the same text as the argument with
\* ${tool_result.<N-1>} written in its place
C18_LastEqualsLastIndex ==
  LET value == resolver.args.pattern
      N == Len(resolver.tool_results)
  IN (/\ resolver.pc = "done"
      /\ N >= 1
      /\ N <= Len(IndexTokens)
      /\ \E i \in 1..Len(value) : value[i] = LastToken)
     => resolver.resolved.pattern =
          resolve_value(Replace(value, LastToken, <<IndexTokens[N]>>),
                        resolver.tool_results, resolver.memory_store)

\* ----------------------------------------------------------------- C19
\* token t of an argument is not a placeholder, or is one that cannot be resolved
Unresolvable(t, tool_results_history, memory_store) ==
  IF IsIndexToken(t) THEN IndexOf(t) >= Len(tool_results_history)
  ELSE IF t = LastToken THEN tool_results_history = <<>>
  ELSE IF t \in MemoryTokens
       THEN ~memory_store.given \/ MemoryKey(t) \notin memory_store.keys
  ELSE IF t \in NaturalTokens
       THEN \A i \in 1..Len(tool_results_history) :
              tool_results_history[i].tool_name \notin NaturalQuery(t)
  ELSE TRUE

\* C19: an argument all of whose placeholders are unresolvable (index beyond the
\* history, last on an empty history, memory key that is absent, natural query
\* without a matching entry) is returned exactly as it was given
C19_UnresolvableLeftUntouched ==
  LET value == resolver.args.pattern
  IN (/\ resolver.pc = "done"
      /\ \A i \in 1..Len(value) :
            Unresolvable(value[i], resolver.tool_results, resolver.memory_store))
     => resolver.resolved.pattern = value

\* an index beyond a non-empty history, next to an absent memory key of a given
\* store, came back unchanged
C19_Witness ==
  /\ resolver.pc = "done"
  /\ resolver.tool_results # <<>>
  /\ resolver.memory_store.given
  /\ resolver.args.pattern = <<IndexTokens[3], "${memory.k2}">>
  /\ "k2" \notin resolver.memory_store.keys
  /\ resolver.resolved.pattern = resolver.args.pattern

\* ----------------------------------------------------------------- C20
\* what one occurrence of a token resolves to, taken by itself
ResolvedAlone(t, tool_results_history, memory_store) ==
  IF Unresolvable(t, tool_results_history, memory_store)
  THEN <<t>>
  ELSE resolve_value(<<t>>, tool_results_history, memory_store)

RECURSIVE ResolveEach(_, _, _)
ResolveEach(value, tool_results_history, memory_store) ==
  IF value = <<>> THEN <<>>
  ELSE ResolvedAlone(Head(value), tool_results_history, memory_store)
         \o ResolveEach(Tail(value), tool_results_history, memory_store)

\* C20: every occurrence of a placeholder in an argument is resolved
\* independently: the result is the argument with each resolvable occurrence
\* replaced by what that placeholder resolves to by itself
C20_EachOccurrenceResolved ==
  resolver.pc = "done" =>
    resolver.resolved.pattern =
      ResolveEach(resolver.args.pattern, resolver.tool_results, resolver.memory_store)

\* ----------------------------------------------------------------- C38
\* the text the substitution of one resolvable occurrence inserts: the prior
\* tool output or the memory value the placeholder names
Inserted(t, tool_results_history, memory_store) ==
  IF IsIndexToken(t) THEN tool_results_history[IndexOf(t) + 1].output
  ELSE IF t = LastToken THEN tool_results_history[Len(tool_results_history)].output
  ELSE IF t \in MemoryTokens THEN memory_store.data[MemoryKey(t)]
  ELSE find_tool_result_by_description(NaturalQuery(t), tool_results_history).output

RECURSIVE SinglePassResults(_, _, _)
\* what a single pass over the value can produce: every occurrence is left as
\* it is or replaced by the text its placeholder names, and no inserted text
\* is scanned again
SinglePassResults(value, tool_results_history, memory_store) ==
  IF value = <<>> THEN { <<>> }
  ELSE LET t == Head(value)
           here == { <<t>> } \cup
                   ( IF Unresolvable(t, tool_results_history, memory_store) THEN {}
                     ELSE { Inserted(t, tool_results_history, memory_store) } )
       IN { a \o rest : a \in here,
            rest \in SinglePassResults(Tail(value), tool_results_history, memory_store) }

\* C38: placeholder resolution is single-pass: a tool output or memory value
\* that holds placeholder text is inserted verbatim, so the resolved argument
\* is the argument with occurrences replaced by the texts they name and
\* nothing else
C38_ResolutionIsSinglePass ==
  resolver.pc = "done" =>
    resolver.resolved.pattern \in
      SinglePassResults(resolver.args.pattern, resolver.tool_results, resolver.memory_store)

\* ----------------------------------------------------------------- C39
\* C39: with two sessions running concurrently on agents that share one
\* EventEmitter, every event emitted on behalf of a session carries that
\* session's id, never the other session's
C39_EventsCarryTheirSessionId ==
  \A i \in 1..Len(shared.events) : shared.events[i].session_id = shared.events[i].by

\* ----------------------------------------------------------------- C40
\* C40: every call of EventEmitter.emit returns, whatever the handlers do
\* (calls of emit, add_handler or remove_handler on the same emitter included)
\* and however many events were emitted before: no thread stays blocked on
\* the emitter's lock or queue
C40_EmitAlwaysReturns ==
  \A t \in LockThreads :
    (locking.pc[t] \in {"waiting", "dispatching"}) ~> (locking.pc[t] = "idle")

====
